---- MODULE Spec2Model ----
(***************************************************************************)
(* Validation-error counting, categorisation and diffing of                *)
(* dandisets-linkml-status-tools:                                          *)
(*   tools/validation_err_counter.py   ValidationErrCounter,               *)
(*                                     validation_err_diff                 *)
(*   cmd_funcs/diff_manifests_reports.py   pydantic_err_categorizer,       *)
(*                                     count_pydantic_validation_errs      *)
(*                                                                         *)
(* A Python tuple is a TLA+ tuple.  An element of a "loc" is a string or   *)
(* an integer; it is the record LocStr(s) or LocInt(n), so that the two    *)
(* kinds stay distinct values.  A collections.Counter is a function from   *)
(* the errors it has a key for to their counts (a key may hold 0), and a   *)
(* dict is a function from its keys.                                       *)
(***************************************************************************)
EXTENDS Integers, Sequences, FiniteSets, TLC

\* Cap on the number of errors counted into one counter.
MaxTotal == 2

\* Longest "loc" of a Pydantic validation error.
MaxLocLen == 2

VARIABLES
    categorizer,      \* self._err_categorizer of the counters: the name of the function
    err_ctrs_by_cat,  \* [1..2 -> dict]: self._err_ctrs_by_cat of counters c1 and c2
    counted,          \* history: [1..2 -> [Errs -> Nat]], the errors passed to count so far
    call,             \* the operation performed last and its arguments
    ret_ctrs,         \* Counter objects handed to the caller by c[cat] / items(), by category
    ret_cats,         \* the set returned by cats()
    ret_counts,       \* the dict returned by counts_by_cat
    ret_diff,         \* the dict returned by validation_err_diff
    raised,           \* TRUE iff the last operation raised an exception
    in_errs,          \* a list of (Pydantic error dict, path of its data instance)
    in_compress,      \* the compress argument of the last counting of in_errs
    out_cats,         \* the category of each error of in_errs, by position
    out_ctr,          \* the Counter the counting of in_errs returned
    out_verr,         \* the dict of the ValidationErrCounter that counted the normalised in_errs
    stage,            \* "counters", or how far in_errs has been processed
    js_errs,          \* a list of jsonschema validation errors (validator, validator_value)
    js_other,         \* the object the type of the first error of js_errs is compared with
    js_eq,            \* what that comparison returned
    js_counts,        \* the list of (type, count) pairs get_linkml_err_counts returned
    js_stage,         \* "idle", "input", "compared" or "counted"
    raw_err_in,       \* the Pydantic error dict as it was passed to pydantic_err_rep
    raw_err,          \* that dict object after the call
    raw_path,         \* the path passed with it
    raw_ret,          \* the tuple the call returned
    raw_raised,       \* TRUE iff the call raised
    raw_stage,        \* "idle", "input" or "called"
    md_diff,          \* the diff dict given to validation_err_diff_detailed_tables
    md_tables,        \* the tables it generated, in the order of generation
    md_raised,        \* TRUE iff it raised ValueError
    md_stage,         \* "idle", "input" or "called"
    ret_summary,      \* the parts of the text validation_err_diff_summary returned
    ord_in,           \* the error lists A, B and C of the order experiment
    ord_ctrs,         \* the counters fed A then B, B then A, and A followed by B at once
    ord_diffs,        \* the diff of each of the three against a counter fed C
    ord_stage,        \* "idle", "input" or "counted"
    reports1,         \* the first collection of dandiset validation reports
    reports2,         \* the second collection of dandiset validation reports
    diff_reports,     \* the list _dandiset_validation_diff_reports returned
    dr_ctrs,          \* the two counters the output step fed with the errors of the diff reports
    dr_diff,          \* the validation_err_diff of the two
    dr_raised,        \* TRUE iff the comparison raised
    dr_stage,         \* "idle", "input", "diffed" or "output"
    asset_reports1,   \* the first collection of asset validation reports
    asset_reports2,   \* the second collection of asset validation reports
    asset_diff_reports, \* the list _asset_validation_diff_reports returned
    ar_raised,        \* TRUE iff it raised
    ar_stage,         \* "idle", "input" or "diffed"
    esc_a,            \* a text, as the sequence of its characters
    esc_b,            \* another text
    esc_out,          \* escape(esc_a), escape(esc_b) and escape(esc_a + esc_b)
    esc_stage,        \* "idle", "input" or "escaped"
    mig_manifest,     \* what each dandiset version directory of the manifest holds
    mig_todo,         \* the version directories the loops have not reached yet
    mig_out,          \* the files written under output_dir, by (identifier, version)
    mig_warnings,     \* the (identifier, version) of the warnings logged
    mig_raised,       \* TRUE iff migrate_manifests_dandisets raised
    mig_stage         \* "idle", "input", "running", "done" or "aborted"

ctr_vars == <<categorizer, err_ctrs_by_cat, counted, call, ret_ctrs, ret_cats, ret_counts, ret_diff, raised>>
pyd_vars == <<in_errs, in_compress, out_cats, out_ctr, out_verr, stage>>
js_vars == <<js_errs, js_other, js_eq, js_counts, js_stage>>
raw_vars == <<raw_err_in, raw_err, raw_path, raw_ret, raw_raised, raw_stage>>
md_vars == <<md_diff, md_tables, md_raised, md_stage>>
sum_vars == <<ret_summary>>
ord_vars == <<ord_in, ord_ctrs, ord_diffs, ord_stage>>
dr_vars == <<reports1, reports2, diff_reports, dr_ctrs, dr_diff, dr_raised, dr_stage>>
ar_vars == <<asset_reports1, asset_reports2, asset_diff_reports, ar_raised, ar_stage>>
esc_vars == <<esc_a, esc_b, esc_out, esc_stage>>
mig_vars == <<mig_manifest, mig_todo, mig_out, mig_warnings, mig_raised, mig_stage>>
ext_vars == <<js_vars, raw_vars, md_vars, sum_vars, ord_vars, dr_vars, ar_vars, esc_vars, mig_vars>>
vars == <<ctr_vars, pyd_vars, ext_vars>>

-----------------------------------------------------------------------------
(* Values *)

LocStr(s) == [isInt |-> FALSE, i |-> 0, s |-> s]
LocInt(n) == [isInt |-> TRUE, i |-> n, s |-> ""]

\* The error tuples (type, msg, loc, path) the two counters are fed with.
\* Three of them fall into one category (two differ in the array index, two in
\* the data instance), the fourth into another.
Errs == {<<"T", "m", <<LocStr("a"), LocInt(0)>>, "p1">>,
         <<"T", "m", <<LocStr("a"), LocInt(1)>>, "p1">>,
         <<"T", "m", <<LocStr("a"), LocInt(0)>>, "p2">>,
         <<"T", "m", <<LocStr("b")>>, "p1">>}

\* A Python list is the record PyList(elems); a tuple is the sequence itself.
PyList(elems) == [list |-> elems]

\* The Pydantic validation errors (dicts with the keys type, msg and loc) the
\* normalisation and categorisation are applied to.
LocElems == {LocStr("a"), LocStr("[*]"), LocInt(0), LocInt(1)}
PydLocs == UNION {[1..n -> LocElems] : n \in 0..MaxLocLen}
\* (type, msg, path of the data instance)
PydOrigins == {<<"T", "m", "p1">>, <<"T", "m", "p2">>, <<"T", "n", "p1">>, <<"U", "m", "p1">>}
PydInputs == {[err |-> [type |-> o[1], msg |-> o[2], loc |-> PyList(loc)], path |-> o[3]] :
                  o \in PydOrigins, loc \in PydLocs}
\* The lists of errors processed at once hold none, one or two of them.
PydListLens == {0, 1, 2}

-----------------------------------------------------------------------------
(* pydantic_err_rep, pydantic_err_categorizer *)

\* tuple(lst)
tuple(lst) == lst.list

\* The array indices generalised already in the tuple.
pydantic_err_rep_wildcards(err, path) ==
    <<err.type, err.msg,
      [k \in 1..Len(tuple(err.loc)) |->
          IF tuple(err.loc)[k].isInt THEN LocStr("[*]") ELSE tuple(err.loc)[k]],
      path>>

\* The path of the data instance left out of the tuple.
pydantic_err_rep_no_path(err, path) == <<err.type, err.msg, tuple(err.loc), "">>

pydantic_err_rep(err, path) == <<err.type, err.msg, tuple(err.loc), path>>

\* A wildcard already in the loc generalised once more.
pydantic_err_categorizer_rewildcard(err) ==
    <<err[1], err[2],
      [k \in 1..Len(err[3]) |->
          IF err[3][k].isInt THEN LocStr("[*]")
          ELSE IF err[3][k] = LocStr("[*]") THEN LocStr("[*][*]")
          ELSE err[3][k]]>>

\* The array indices left as they are.
pydantic_err_categorizer_exact(err) == <<err[1], err[2], err[3]>>

pydantic_err_categorizer(err) ==
    LET type_ == err[1]
        msg == err[2]
        loc == [k \in 1..Len(err[3]) |->
                   IF err[3][k].isInt THEN LocStr("[*]") ELSE err[3][k]]
    IN <<type_, msg, loc>>

\* simple_categorizer of the tests: the category is (err[0],)
simple_categorizer(err) == <<err[1]>>

\* The categorizers a counter is built with.
Categorizers == {"pydantic_err_categorizer", "simple_categorizer"}

\* self._err_categorizer(err): the categorizer injected at construction
err_categorizer(err) ==
    IF categorizer = "simple_categorizer" THEN simple_categorizer(err)
    ELSE pydantic_err_categorizer(err)

AllCats == {err_categorizer(e) : e \in Errs}
NoCat == << >>
Ctrs == 1..2

-----------------------------------------------------------------------------
(* collections.Counter and collections.defaultdict, as the code uses them *)

EmptyCounter == << >>

CounterGet(c, e) == IF e \in DOMAIN c THEN c[e] ELSE 0

\* A slip in the update: the count is set, not incremented.
CounterUpdateSet(c, err) ==
    IF err \in DOMAIN c THEN [c EXCEPT ![err] = 1] ELSE c @@ (err :> 1)

\* ctr.update([err])
CounterUpdate(c, err) ==
    IF err \in DOMAIN c THEN [c EXCEPT ![err] = @ + 1] ELSE c @@ (err :> 1)

\* The difference of the sets of keys: an element of a that b has too is dropped.
CounterSubKeys(a, b) == [e \in (DOMAIN a) \ (DOMAIN b) |-> a[e]]

\* The distance of the two counts kept, whichever is the greater.
CounterSubAbs(a, b) ==
    LET keep == {e \in DOMAIN a : a[e] # CounterGet(b, e)}
    IN [e \in keep |-> IF a[e] > CounterGet(b, e) THEN a[e] - CounterGet(b, e)
                       ELSE CounterGet(b, e) - a[e]]

\* a - b: only the positive remainders are kept
CounterSub(a, b) ==
    LET keep == {e \in DOMAIN a : a[e] - CounterGet(b, e) > 0}
                \cup {e \in (DOMAIN b) \ (DOMAIN a) : b[e] < 0}
    IN [e \in keep |-> IF e \in DOMAIN a THEN a[e] - CounterGet(b, e) ELSE 0 - b[e]]

RECURSIVE SumOver(_, _)
SumOver(c, keys) ==
    IF keys = {} THEN 0
    ELSE LET e == CHOOSE x \in keys : TRUE IN c[e] + SumOver(c, keys \ {e})

\* The number of distinct elements in place of the sum of the counts.
CounterLen(c) == Cardinality(DOMAIN c)

\* ctr.total()
CounterTotal(c) == SumOver(c, DOMAIN c)

\* bool(ctr): a Counter is truthy iff it has a key
CounterTruthy(c) == DOMAIN c # {}

\* A plain dict in place of the defaultdict: a missing key raises KeyError.
PlainDictGetItem(d, k) ==
    IF k \in DOMAIN d
    THEN [d |-> d, v |-> d[k], raised |-> FALSE]
    ELSE [d |-> d, v |-> EmptyCounter, raised |-> TRUE]

\* defaultdict(Counter).__getitem__: a missing key is inserted with Counter()
DefaultDictGetItem(d, k) ==
    IF k \in DOMAIN d
    THEN [d |-> d, v |-> d[k], raised |-> FALSE]
    ELSE [d |-> d @@ (k :> EmptyCounter), v |-> EmptyCounter, raised |-> FALSE]

\* An object is a value with an identity: ref names the counter and category
\* whose internal Counter it is, Fresh a Counter no dict of a counter holds.
Fresh == << >>
Internal(i, cat, c) == [ref |-> <<i, cat>>, val |-> c]

\* The copy left out: the caller gets the very object.
CounterNoCopy(obj) == obj

\* ctr.copy()
CounterCopy(obj) == [ref |-> Fresh, val |-> obj.val]

-----------------------------------------------------------------------------
(* ValidationErrCounter *)

\* Only the first error of the list counted.
count_head(d, errs) ==
    IF errs = << >> THEN d
    ELSE LET err == Head(errs)
             cat == err_categorizer(err)
             g == DefaultDictGetItem(d, cat)
         IN (cat :> CounterUpdate(g.v, err)) @@ g.d

\* Every error of the list counted under the category of the first one.
RECURSIVE count_under(_, _, _)
count_under(d, cat, errs) ==
    IF errs = << >> THEN d
    ELSE LET g == DefaultDictGetItem(d, cat)
         IN count_under((cat :> CounterUpdate(g.v, Head(errs))) @@ g.d, cat, Tail(errs))

count_first_cat(d, errs) ==
    IF errs = << >> THEN d ELSE count_under(d, err_categorizer(Head(errs)), errs)

RECURSIVE count(_, _)
count(d, errs) ==
    IF errs = << >> THEN d
    ELSE LET err == Head(errs)
             cat == err_categorizer(err)
             g == DefaultDictGetItem(d, cat)
         IN count((cat :> CounterUpdate(g.v, err)) @@ g.d, Tail(errs))

counts_by_cat(d) == [cat \in DOMAIN d |-> CounterTotal(d[cat])]

cats(d) == DOMAIN d

getitem(i, d, cat) ==
    LET g == DefaultDictGetItem(d, cat)
    IN [d |-> g.d, raised |-> g.raised, obj |-> CounterCopy(Internal(i, cat, g.v))]

items(i, d) == [cat \in DOMAIN d |-> CounterCopy(Internal(i, cat, d[cat]))]

-----------------------------------------------------------------------------
(* validation_err_diff *)

\* Only the removed side decides whether a category is emitted.
IncludeRemovedOnly(removed, gained) == CounterTruthy(removed)

\* Only the gained side decides whether a category is emitted.
IncludeGainedOnly(removed, gained) == CounterTruthy(gained)

\* if removed or gained
Include(removed, gained) == CounterTruthy(removed) \/ CounterTruthy(gained)

\* One pass of the loop body for each category of cats; d1 and d2 are the
\* dicts of c1 and c2, which the lookups c1[cat] and c2[cat] go through.
RECURSIVE DiffLoop(_, _, _, _)
DiffLoop(todo, d1, d2, diff) ==
    IF todo = {} THEN [d1 |-> d1, d2 |-> d2, diff |-> diff]
    ELSE LET cat == CHOOSE c \in todo : TRUE
             a1 == getitem(1, d1, cat)
             a2 == getitem(2, d2, cat)
             b2 == getitem(2, a2.d, cat)
             b1 == getitem(1, a1.d, cat)
             removed == CounterSub(a1.obj.val, a2.obj.val)
             gained == CounterSub(b2.obj.val, b1.obj.val)
             include == Include(removed, gained)
         IN DiffLoop(todo \ {cat}, b1.d, b2.d,
                     IF include THEN diff @@ (cat :> <<removed, gained>>) ELSE diff)

\* The categories of c2 left out of the universe.
validation_err_diff_c1_cats(d1, d2) == DiffLoop(cats(d1), d1, d2, << >>)

validation_err_diff(d1, d2) == DiffLoop(cats(d1) \cup cats(d2), d1, d2, << >>)

-----------------------------------------------------------------------------
(* The state machine: two counters built with the same categorizer, and a   *)
(* caller that counts, queries and diffs                                    *)

NoCall == [op |-> "init", i |-> 0, j |-> 0, cat |-> NoCat]

RECURSIVE Occ(_, _)
Occ(e, errs) ==
    IF errs = << >> THEN 0
    ELSE (IF Head(errs) = e THEN 1 ELSE 0) + Occ(e, Tail(errs))

\* The lists handed to one count call: empty, one error, two errors (the
\* same one twice included).
ErrLists == {<< >>} \cup {<<e>> : e \in Errs} \cup {<<e, f>> : e \in Errs, f \in Errs}

CountedTotal(i) == SumOver(counted[i], Errs)

\* What a caller may turn a Counter it holds into: empty, or one error with a
\* count of 0 or a count no counter holds.
MutVals == {EmptyCounter} \cup {e :> n : e \in Errs, n \in {0, MaxTotal + 1}}

\* two counters that have counted nothing
CtrEmpty ==
    /\ err_ctrs_by_cat = [i \in Ctrs |-> << >>]
    /\ counted = [i \in Ctrs |-> [e \in Errs |-> 0]]
    /\ call = NoCall
    /\ ret_ctrs = << >>
    /\ ret_cats = {}
    /\ ret_counts = << >>
    /\ ret_diff = << >>
    /\ raised = FALSE

\* the two built with pydantic_err_categorizer
CtrInit ==
    /\ categorizer = "pydantic_err_categorizer"
    /\ CtrEmpty

\* no list of jsonschema validation errors is being processed
JsIdle ==
    /\ js_errs = << >>
    /\ js_other = << >>
    /\ js_eq = FALSE
    /\ js_counts = << >>
    /\ js_stage = "idle"

\* pydantic_err_rep has not been given a dict
RawIdle ==
    /\ raw_err_in = << >>
    /\ raw_err = << >>
    /\ raw_path = ""
    /\ raw_ret = << >>
    /\ raw_raised = FALSE
    /\ raw_stage = "idle"

\* no diff is being rendered
MdIdle ==
    /\ md_diff = << >>
    /\ md_tables = << >>
    /\ md_raised = FALSE
    /\ md_stage = "idle"

SumIdle == ret_summary = << >>

OrdIdle ==
    /\ ord_in = << >>
    /\ ord_ctrs = << >>
    /\ ord_diffs = << >>
    /\ ord_stage = "idle"

\* no collections of dandiset validation reports are being compared
DrIdle ==
    /\ reports1 = << >>
    /\ reports2 = << >>
    /\ diff_reports = << >>
    /\ dr_ctrs = << >>
    /\ dr_diff = << >>
    /\ dr_raised = FALSE
    /\ dr_stage = "idle"

\* no collections of asset validation reports are being compared
ArIdle ==
    /\ asset_reports1 = << >>
    /\ asset_reports2 = << >>
    /\ asset_diff_reports = << >>
    /\ ar_raised = FALSE
    /\ ar_stage = "idle"

\* no text is being escaped
EscIdle ==
    /\ esc_a = << >>
    /\ esc_b = << >>
    /\ esc_out = << >>
    /\ esc_stage = "idle"

\* no manifest is being migrated
MigIdle ==
    /\ mig_manifest = << >>
    /\ mig_todo = << >>
    /\ mig_out = << >>
    /\ mig_warnings = << >>
    /\ mig_raised = FALSE
    /\ mig_stage = "idle"

\* none of the other operations has been given an input
ExtIdle ==
    JsIdle /\ RawIdle /\ MdIdle /\ SumIdle /\ OrdIdle /\ DrIdle /\ ArIdle /\ EscIdle /\ MigIdle

\* no list of Pydantic errors is being processed
PydIdle ==
    /\ in_errs = << >>
    /\ in_compress = FALSE
    /\ out_cats = << >>
    /\ out_ctr = << >>
    /\ out_verr = << >>
    /\ stage = "counters"

Init == CtrInit /\ PydIdle /\ ExtIdle

Count(i, errs) ==
    /\ CountedTotal(i) + Len(errs) <= MaxTotal
    /\ err_ctrs_by_cat' = [err_ctrs_by_cat EXCEPT ![i] = count(@, errs)]
    /\ counted' = [counted EXCEPT ![i] = [e \in Errs |-> @[e] + Occ(e, errs)]]
    /\ call' = [op |-> "count", i |-> i, j |-> 0, cat |-> NoCat]
    /\ ret_ctrs' = << >>
    /\ ret_cats' = {}
    /\ ret_counts' = << >>
    /\ ret_diff' = << >>
    /\ raised' = FALSE
    /\ UNCHANGED <<categorizer, pyd_vars, ext_vars>>

GetItem(i, cat) ==
    LET r == getitem(i, err_ctrs_by_cat[i], cat)
    IN /\ err_ctrs_by_cat' = [err_ctrs_by_cat EXCEPT ![i] = r.d]
       /\ call' = [op |-> "getitem", i |-> i, j |-> 0, cat |-> cat]
       /\ ret_ctrs' = IF r.raised THEN << >> ELSE (cat :> r.obj)
       /\ raised' = r.raised
       /\ ret_cats' = {}
       /\ ret_counts' = << >>
       /\ ret_diff' = << >>
       /\ UNCHANGED <<categorizer, counted, pyd_vars, ext_vars>>

Items(i) ==
    /\ call' = [op |-> "items", i |-> i, j |-> 0, cat |-> NoCat]
    /\ ret_ctrs' = items(i, err_ctrs_by_cat[i])
    /\ ret_cats' = {}
    /\ ret_counts' = << >>
    /\ ret_diff' = << >>
    /\ raised' = FALSE
    /\ UNCHANGED <<categorizer, err_ctrs_by_cat, counted, pyd_vars, ext_vars>>

Cats(i) ==
    /\ call' = [op |-> "cats", i |-> i, j |-> 0, cat |-> NoCat]
    /\ ret_cats' = cats(err_ctrs_by_cat[i])
    /\ ret_ctrs' = << >>
    /\ ret_counts' = << >>
    /\ ret_diff' = << >>
    /\ raised' = FALSE
    /\ UNCHANGED <<categorizer, err_ctrs_by_cat, counted, pyd_vars, ext_vars>>

CountsByCat(i) ==
    /\ call' = [op |-> "counts_by_cat", i |-> i, j |-> 0, cat |-> NoCat]
    /\ ret_counts' = counts_by_cat(err_ctrs_by_cat[i])
    /\ ret_ctrs' = << >>
    /\ ret_cats' = {}
    /\ ret_diff' = << >>
    /\ raised' = FALSE
    /\ UNCHANGED <<categorizer, err_ctrs_by_cat, counted, pyd_vars, ext_vars>>

\* validation_err_diff(ci, cj) for the two distinct counters, in either order
Diff(i, j) ==
    LET r == validation_err_diff(err_ctrs_by_cat[i], err_ctrs_by_cat[j])
    IN /\ i # j
       /\ err_ctrs_by_cat' = [err_ctrs_by_cat EXCEPT ![i] = r.d1, ![j] = r.d2]
       /\ call' = [op |-> "diff", i |-> i, j |-> j, cat |-> NoCat]
       /\ ret_diff' = r.diff
       /\ ret_ctrs' = << >>
       /\ ret_cats' = {}
       /\ ret_counts' = << >>
       /\ raised' = FALSE
       /\ UNCHANGED <<categorizer, counted, pyd_vars, ext_vars>>

\* The caller changes a Counter object it was handed to newval. The change
\* lands in the object the handle refers to: the caller's own Counter when it
\* is a fresh one, a counter's internal Counter when it is that very object.
Mutate(cat, newval) ==
    /\ cat \in DOMAIN ret_ctrs
    /\ newval # ret_ctrs[cat].val
    /\ ret_ctrs' = [ret_ctrs EXCEPT ![cat].val = newval]
    /\ err_ctrs_by_cat' =
           IF ret_ctrs[cat].ref = Fresh THEN err_ctrs_by_cat
           ELSE [err_ctrs_by_cat EXCEPT ![ret_ctrs[cat].ref[1]][ret_ctrs[cat].ref[2]] = newval]
    /\ call' = [call EXCEPT !.op = "mutate", !.cat = cat]
    /\ UNCHANGED <<categorizer, counted, ret_cats, ret_counts, ret_diff, raised, pyd_vars, ext_vars>>

Next ==
    \/ \E i \in Ctrs, errs \in ErrLists : Count(i, errs)
    \/ \E i \in Ctrs, cat \in AllCats : GetItem(i, cat)
    \/ \E i \in Ctrs : Items(i)
    \/ \E i \in Ctrs : Cats(i)
    \/ \E i \in Ctrs : CountsByCat(i)
    \/ \E i \in Ctrs, j \in Ctrs : Diff(i, j)

Spec == Init /\ [][Next]_vars

\* One counter and a caller that also mutates the Counter objects it was handed.
NextCopy ==
    \/ \E errs \in ErrLists : Count(1, errs)
    \/ \E cat \in AllCats : GetItem(1, cat)
    \/ Items(1)
    \/ Cats(1)
    \/ CountsByCat(1)
    \/ \E cat \in AllCats, newval \in MutVals : Mutate(cat, newval)

SpecCopy == Init /\ [][NextCopy]_vars

\* A counter built with any of the categorizers, fed and queried.
InitCat ==
    /\ categorizer \in Categorizers
    /\ CtrEmpty
    /\ PydIdle
    /\ ExtIdle

NextCat ==
    \/ \E errs \in ErrLists : Count(1, errs)
    \/ \E cat \in AllCats : GetItem(1, cat)
    \/ Items(1)
    \/ Cats(1)
    \/ CountsByCat(1)

SpecCat == InitCat /\ [][NextCat]_vars

-----------------------------------------------------------------------------
(* count_pydantic_validation_errs(errs, compress) of tools/__init__.py: the   *)
(* Counter of (type, msg, tuple(loc)) over a list of Pydantic error dicts,    *)
(* every integer of loc replaced by "[*]" first when compress is set          *)

\* compress taken as never set.
count_pydantic_validation_errs_exact(errs, compress) ==
    LET keys == [k \in 1..Len(errs) |-> <<errs[k].type, errs[k].msg, tuple(errs[k].loc)>>]
    IN [key \in {keys[k] : k \in 1..Len(errs)} |->
           Cardinality({k \in 1..Len(errs) : keys[k] = key})]

count_pydantic_validation_errs_compress(errs, compress) ==
    LET loc_of(e) ==
            IF compress
            THEN [k \in 1..Len(tuple(e.loc)) |->
                     IF tuple(e.loc)[k].isInt THEN LocStr("[*]") ELSE tuple(e.loc)[k]]
            ELSE tuple(e.loc)
        keys == [k \in 1..Len(errs) |-> <<errs[k].type, errs[k].msg, loc_of(errs[k])>>]
    IN [key \in {keys[k] : k \in 1..Len(errs)} |->
           Cardinality({k \in 1..Len(errs) : keys[k] = key})]

-----------------------------------------------------------------------------
(* Normalising, categorising and counting a list of Pydantic errors *)

InitPyd ==
    /\ CtrInit
    /\ \E n \in PydListLens : in_errs \in [1..n -> PydInputs]
    /\ in_compress = FALSE
    /\ out_cats = << >>
    /\ out_ctr = << >>
    /\ out_verr = << >>
    /\ stage = "input"
    /\ ExtIdle

\* each error is normalised by pydantic_err_rep and categorised
Categorize ==
    /\ stage = "input"
    /\ out_cats' = [k \in 1..Len(in_errs) |->
                       pydantic_err_categorizer(
                           pydantic_err_rep(in_errs[k].err, in_errs[k].path))]
    /\ stage' = "categorized"
    /\ UNCHANGED <<in_errs, in_compress, out_ctr, out_verr, ctr_vars, ext_vars>>

CountPydantic(compress) ==
    /\ stage = "input"
    /\ out_ctr' = count_pydantic_validation_errs_compress(
                      [k \in 1..Len(in_errs) |-> in_errs[k].err], compress)
    /\ in_compress' = compress
    /\ stage' = "counted"
    /\ UNCHANGED <<in_errs, out_cats, out_verr, ctr_vars, ext_vars>>

\* count_pydantic_validation_errs(err_reps) of diff_manifests_reports.py: a
\* new ValidationErrCounter with pydantic_err_categorizer counts the tuples
count_pydantic_validation_errs(err_reps) == count(<< >>, err_reps)

\* each error is normalised by pydantic_err_rep with the path of its data
\* instance, and the tuples are counted by one ValidationErrCounter
CountReps ==
    /\ stage = "input"
    /\ out_verr' = count_pydantic_validation_errs(
                       [k \in 1..Len(in_errs) |->
                           pydantic_err_rep(in_errs[k].err, in_errs[k].path)])
    /\ stage' = "rep_counted"
    /\ UNCHANGED <<in_errs, in_compress, out_cats, out_ctr, ctr_vars, ext_vars>>

NextPyd ==
    \/ Categorize
    \/ \E compress \in BOOLEAN : CountPydantic(compress)
    \/ CountReps

SpecPyd == InitPyd /\ [][NextPyd]_vars

-----------------------------------------------------------------------------
(* str.__lt__ on the strings of the model: Python orders strings by code    *)
(* point, so digits come before upper case, "[" and lower case              *)

StrOrder == <<"", "0", "0.210812.1448", "000001", "000002", "10", "2", "T", "U", "[*]",
              "a", "b", "draft", "enum", "m", "maximum", "n", "p1", "p2">>

StrRank(s) == CHOOSE i \in 1..Len(StrOrder) : StrOrder[i] = s

StrLess(a, b) == StrRank(a) < StrRank(b)

-----------------------------------------------------------------------------
(* JsonschemaValidationErrorType and get_linkml_err_counts *)

\* A Python value is its runtime type with its content: n for a number, s for
\* a string, elems for the integers of a list or a tuple.
ValInt(n) == [ty |-> "int", n |-> n, s |-> "", elems |-> << >>]
ValFloat(n) == [ty |-> "float", n |-> n, s |-> "", elems |-> << >>]
ValStr(s) == [ty |-> "str", n |-> 0, s |-> s, elems |-> << >>]
ValList(elems) == [ty |-> "list", n |-> 0, s |-> "", elems |-> elems]
ValTuple(elems) == [ty |-> "tuple", n |-> 0, s |-> "", elems |-> elems]

NumTypes == {"int", "float"}

\* a == b of Python: an int equals the float of the same value; a list never
\* equals a tuple, nor a string a number
PyEq(a, b) ==
    IF a.ty \in NumTypes /\ b.ty \in NumTypes THEN a.n = b.n
    ELSE a.ty = b.ty /\ a.s = b.s /\ a.elems = b.elems

\* JsonschemaValidationErrorType(validator, validator_value)
JsonschemaValidationErrorType(validator, validator_value) ==
    [cls |-> "JsonschemaValidationErrorType",
     validator |-> validator, validator_value |-> validator_value]

\* objects of other classes: a str, and a plain tuple of the same two fields
OtherObjects ==
    {[cls |-> "str", validator |-> "", validator_value |-> ValStr("enum")],
     [cls |-> "tuple", validator |-> "enum", validator_value |-> ValInt(1)]}

\* The runtime types of the two values not compared.
JsonschemaValidationErrorType_eq_by_value(self, other) ==
    /\ other.cls = "JsonschemaValidationErrorType"
    /\ self.validator = other.validator
    /\ PyEq(self.validator_value, other.validator_value)

\* JsonschemaValidationErrorType.__eq__
JsonschemaValidationErrorType_eq(self, other) ==
    /\ other.cls = "JsonschemaValidationErrorType"
    /\ self.validator = other.validator
    /\ self.validator_value.ty = other.validator_value.ty
    /\ PyEq(self.validator_value, other.validator_value)

JsValidators == {"maximum", "enum"}
JsValues == {ValInt(1), ValFloat(1), ValStr("1"), ValList(<<1, 2, 3>>), ValTuple(<<1, 2, 3>>)}
\* a validation result e_, of which only e_.source is read
JsErrs == {[source |-> [validator |-> v, validator_value |-> x]] : v \in JsValidators, x \in JsValues}
JsTypes == {JsonschemaValidationErrorType(v, x) : v \in JsValidators, x \in JsValues}
JsListLens == {0, 1, 2, 3}

\* the index of the entry of validator in counter (a dict in insertion order,
\* as a sequence of its entries), 0 if it has none
CounterIndex(counter, validator) ==
    IF \E i \in 1..Len(counter) : counter[i].validator = validator
    THEN CHOOSE i \in 1..Len(counter) : counter[i].validator = validator
    ELSE 0

\* count_err(e_)
count_err(counter, e_) ==
    LET validator == e_.source.validator
        err_type == JsonschemaValidationErrorType(validator, e_.source.validator_value)
        k == CounterIndex(counter, validator)
    IN IF k # 0
       THEN LET types == counter[k].types
                hits == {i \in 1..Len(types) : JsonschemaValidationErrorType_eq(types[i], err_type)}
            IN IF hits # {}
               THEN LET i == CHOOSE x \in hits : \A y \in hits : x <= y
                    IN [counter EXCEPT ![k].counts[i] = @ + 1]
               ELSE [counter EXCEPT ![k].types = Append(@, err_type),
                                    ![k].counts = Append(@, 1)]
       ELSE Append(counter, [validator |-> validator, types |-> <<err_type>>, counts |-> <<1>>])

RECURSIVE count_errs(_, _)
count_errs(counter, errs) ==
    IF errs = << >> THEN counter
    ELSE count_errs(count_err(counter, Head(errs)), Tail(errs))

\* chain.from_iterable(zip(t, c) for t, c in counter.values())
RECURSIVE chain_counts(_)
chain_counts(counter) ==
    IF counter = << >> THEN << >>
    ELSE [i \in 1..Len(Head(counter).types) |-> <<Head(counter).types[i], Head(counter).counts[i]>>]
         \o chain_counts(Tail(counter))

\* The count taken as it is: the rarest type first.
sorting_key_ascending(c) == <<c[1].validator, c[2]>>

sorting_key(c) == <<c[1].validator, 0 - c[2]>>

\* k1 < k2 for two keys (str, int)
KeyLess(k1, k2) == StrLess(k1[1], k2[1]) \/ (k1[1] = k2[1] /\ k1[2] < k2[2])

\* sorted(seq, key=sorting_key): stable, an element goes before the first
\* element of a greater key
RECURSIVE sorted_by_key(_)
sorted_by_key(seq) ==
    IF seq = << >> THEN << >>
    ELSE LET front == sorted_by_key(SubSeq(seq, 1, Len(seq) - 1))
             x == seq[Len(seq)]
             after == {i \in 1..Len(front) : KeyLess(sorting_key(x), sorting_key(front[i]))}
             pos == IF after = {} THEN Len(front) + 1
                    ELSE CHOOSE i \in after : \A j \in after : i <= j
         IN SubSeq(front, 1, pos - 1) \o <<x>> \o SubSeq(front, pos, Len(front))

compile_counts(counter) == sorted_by_key(chain_counts(counter))

get_linkml_err_counts(errs) == compile_counts(count_errs(<< >>, errs))

InitJs ==
    /\ CtrInit /\ PydIdle
    /\ \E n \in JsListLens : js_errs \in [1..n -> JsErrs]
    /\ js_other = << >>
    /\ js_eq = FALSE
    /\ js_counts = << >>
    /\ js_stage = "input"
    /\ RawIdle /\ MdIdle /\ SumIdle /\ OrdIdle /\ DrIdle /\ ArIdle /\ EscIdle /\ MigIdle

\* the type of the k-th error of js_errs
JsTypeOf(k) ==
    JsonschemaValidationErrorType(js_errs[k].source.validator, js_errs[k].source.validator_value)

not_js_vars == <<ctr_vars, pyd_vars, raw_vars, md_vars, sum_vars, ord_vars, dr_vars, ar_vars, esc_vars, mig_vars>>

\* the type of the first error == other
Compare(other) ==
    /\ js_stage = "input"
    /\ Len(js_errs) >= 1
    /\ js_other' = other
    /\ js_eq' = JsonschemaValidationErrorType_eq(JsTypeOf(1), other)
    /\ js_stage' = "compared"
    /\ UNCHANGED <<js_errs, js_counts, not_js_vars>>

GetLinkmlErrCounts ==
    /\ js_stage = "input"
    /\ js_counts' = get_linkml_err_counts(js_errs)
    /\ js_stage' = "counted"
    /\ UNCHANGED <<js_errs, js_other, js_eq, not_js_vars>>

NextJs ==
    \/ \E other \in JsTypes \cup OtherObjects : Compare(other)
    \/ GetLinkmlErrCounts

SpecJs == InitJs /\ [][NextJs]_vars

-----------------------------------------------------------------------------
(* _dandiset_validation_diff_reports and the counting of its output.  A     *)
(* collection of dandiset validation reports is a dict from identifier to   *)
(* a dict from version to report.  Of a report only the attributes the code *)
(* reads are kept; the jsondiff fields of a diff report are left out.       *)

None == [none |-> TRUE]

\* Path(*parts): the sequence of its parts
Path(parts) == parts

\* d.get(k, default)
dict_get(d, k, default) == IF k \in DOMAIN d THEN d[k] ELSE default

\* a < b for two sequences of strings (tuples of str, the parts of a path)
RECURSIVE SeqStrLess(_, _)
SeqStrLess(a, b) ==
    IF b = << >> THEN FALSE
    ELSE IF a = << >> THEN TRUE
    ELSE IF Head(a) = Head(b) THEN SeqStrLess(Tail(a), Tail(b))
    ELSE StrLess(Head(a), Head(b))

\* sorted(set) of a set of sequences of strings
RECURSIVE sorted(_)
sorted(set) ==
    IF set = {} THEN << >>
    ELSE LET least == CHOOSE x \in set : \A y \in set \ {x} : SeqStrLess(x, y)
         IN <<least>> \o sorted(set \ {least})

\* The Pydantic errors and the jsonschema error found in reports.
X1 == [type |-> "T", msg |-> "m", loc |-> PyList(<<LocStr("a"), LocInt(0)>>)]
X2 == [type |-> "T", msg |-> "m", loc |-> PyList(<<LocStr("a"), LocInt(1)>>)]
J1 == [validator |-> "enum"]

DandisetValidationReport(pydantic_validation_errs, jsonschema_validation_errs) ==
    [pydantic_validation_errs |-> pydantic_validation_errs,
     jsonschema_validation_errs |-> jsonschema_validation_errs]

\* (identifier, version) of the dandiset versions a collection may report on
DrKeys == {<<"000001", "draft">>, <<"000001", "0.210812.1448">>, <<"000002", "draft">>}

\* what a collection holds for one of them: nothing, or a report
DrSlots ==
    {None,
     DandisetValidationReport(<< >>, << >>),
     DandisetValidationReport(<<X1, X1>>, << >>),
     DandisetValidationReport(<<X1, X2>>, << >>),
     DandisetValidationReport(<< >>, <<J1>>)}

\* the collection holding f[k] for every k with a report
DrCollection(f) ==
    LET present == {k \in DrKeys : f[k] # None}
    IN [id_ \in {k[1] : k \in present} |->
           [ver \in {k[2] : k \in {x \in present : x[1] = id_}} |-> f[<<id_, ver>>]]]

\* get_validation_reports_entries(reports) of tools/__init__.py: the set of
\* (identifier, version) a collection has a report for
get_validation_reports_entries(reports) ==
    UNION {{<<id_, ver>> : ver \in DOMAIN reports[id_]} : id_ \in DOMAIN reports}

\* reports.get(id_, {}).get(ver, None)
lookup(reports, id_, ver) == dict_get(dict_get(reports, id_, << >>), ver, None)

\* The attributes read without the test for None.
errs_of_unguarded(r) ==
    IF r # None
    THEN [raised |-> FALSE, pydantic_errs |-> r.pydantic_validation_errs,
          jsonschema_errs |-> r.jsonschema_validation_errs]
    ELSE [raised |-> TRUE, pydantic_errs |-> << >>, jsonschema_errs |-> << >>]

\* the two error lists of a report, empty lists for None
errs_of(r) ==
    IF r # None
    THEN [raised |-> FALSE, pydantic_errs |-> r.pydantic_validation_errs,
          jsonschema_errs |-> r.jsonschema_validation_errs]
    ELSE [raised |-> FALSE, pydantic_errs |-> << >>, jsonschema_errs |-> << >>]

\* any(lists): some list is not empty
any(lists) == \E i \in 1..Len(lists) : lists[i] # << >>

_DandisetValidationDiffReport(id_, ver, e1, e2) ==
    [dandiset_identifier |-> id_, dandiset_version |-> ver,
     pydantic_validation_errs1 |-> e1.pydantic_errs,
     pydantic_validation_errs2 |-> e2.pydantic_errs,
     jsonschema_validation_errs1 |-> e1.jsonschema_errs,
     jsonschema_validation_errs2 |-> e2.jsonschema_errs]

\* the loop over the sorted entries
RECURSIVE DandisetDiffLoop(_, _, _, _)
DandisetDiffLoop(entries, rs1, rs2, rs) ==
    IF entries = << >> THEN [raised |-> FALSE, rs |-> rs]
    ELSE LET id_ == Head(entries)[1]
             ver == Head(entries)[2]
             e1 == errs_of(lookup(rs1, id_, ver))
             e2 == errs_of(lookup(rs2, id_, ver))
         IN IF e1.raised \/ e2.raised THEN [raised |-> TRUE, rs |-> << >>]
            ELSE IF ~any(<<e1.pydantic_errs, e2.pydantic_errs,
                           e1.jsonschema_errs, e2.jsonschema_errs>>)
            THEN DandisetDiffLoop(Tail(entries), rs1, rs2, rs)
            ELSE DandisetDiffLoop(Tail(entries), rs1, rs2,
                                  Append(rs, _DandisetValidationDiffReport(id_, ver, e1, e2)))

\* Only the entries the two collections have in common.
_dandiset_validation_diff_reports_common(rs1, rs2) ==
    DandisetDiffLoop(sorted(get_validation_reports_entries(rs1)
                            \cap get_validation_reports_entries(rs2)), rs1, rs2, << >>)

_dandiset_validation_diff_reports(rs1, rs2) ==
    DandisetDiffLoop(sorted(get_validation_reports_entries(rs1)
                            \cup get_validation_reports_entries(rs2)), rs1, rs2, << >>)

\* chain.from_iterable(err1_rep_lsts) for side 1, err2_rep_lsts for side 2
RECURSIVE err_rep_chain(_, _)
err_rep_chain(reports, side) ==
    IF reports = << >> THEN << >>
    ELSE LET r == Head(reports)
             p == Path(<<r.dandiset_identifier, r.dandiset_version>>)
             errs == IF side = 1 THEN r.pydantic_validation_errs1
                     ELSE r.pydantic_validation_errs2
         IN [k \in 1..Len(errs) |-> pydantic_err_rep(errs[k], p)]
            \o err_rep_chain(Tail(reports), side)

InitDr ==
    /\ CtrInit /\ PydIdle /\ JsIdle /\ RawIdle /\ MdIdle /\ SumIdle /\ OrdIdle /\ ArIdle /\ EscIdle /\ MigIdle
    /\ \E f \in [DrKeys -> DrSlots] : reports1 = DrCollection(f)
    /\ \E f \in [DrKeys -> DrSlots] : reports2 = DrCollection(f)
    /\ diff_reports = << >>
    /\ dr_ctrs = << >>
    /\ dr_diff = << >>
    /\ dr_raised = FALSE
    /\ dr_stage = "input"

not_dr_vars == <<ctr_vars, pyd_vars, js_vars, raw_vars, md_vars, sum_vars, ord_vars, ar_vars, esc_vars, mig_vars>>

DandisetValidationDiffReports ==
    LET r == _dandiset_validation_diff_reports(reports1, reports2)
    IN /\ dr_stage = "input"
       /\ diff_reports' = r.rs
       /\ dr_raised' = r.raised
       /\ dr_stage' = "diffed"
       /\ UNCHANGED <<reports1, reports2, dr_ctrs, dr_diff, not_dr_vars>>

\* the two counters are fed with the normalised errors of the diff reports
\* and the summary takes their validation_err_diff
OutputDandisetValidationDiffReports ==
    LET ctr1 == count(<< >>, err_rep_chain(diff_reports, 1))
        ctr2 == count(<< >>, err_rep_chain(diff_reports, 2))
        r == validation_err_diff(ctr1, ctr2)
    IN /\ dr_stage = "diffed"
       /\ ~dr_raised
       /\ dr_ctrs' = <<r.d1, r.d2>>
       /\ dr_diff' = r.diff
       /\ dr_stage' = "output"
       /\ UNCHANGED <<reports1, reports2, diff_reports, dr_raised, not_dr_vars>>

NextDr ==
    \/ DandisetValidationDiffReports
    \/ OutputDandisetValidationDiffReports

SpecDr == InitDr /\ [][NextDr]_vars

-----------------------------------------------------------------------------
(* _asset_validation_diff_reports and _key_reports.  A collection of asset  *)
(* validation reports is a list; of a report only the attributes the code   *)
(* reads are kept, asset_idx among them.                                    *)

Digits == <<"0", "1", "2", "3", "4", "5", "6", "7", "8", "9">>

\* str(n) of a non-negative integer
RECURSIVE str(_)
str(n) == IF n < 10 THEN Digits[n + 1] ELSE str(n \div 10) \o Digits[(n % 10) + 1]

\* int(s) of the decimal representation of an integer below 100
int(s) == CHOOSE n \in 0..99 : str(n) = s

AssetValidationReport(id_, ver, idx, asset_id, asset_path, pydantic_errs) ==
    [cls |-> "AssetValidationReport",
     dandiset_identifier |-> id_, dandiset_version |-> ver, asset_idx |-> idx,
     asset_id |-> asset_id, asset_path |-> asset_path,
     pydantic_validation_errs |-> pydantic_errs, jsonschema_validation_errs |-> << >>]

\* (identifier, version, index in the assets array) of the assets reported on
AssetKeys == {<<"000001", "draft", 0>>, <<"000001", "draft", 2>>, <<"000001", "draft", 10>>,
              <<"000001", "0.210812.1448", 0>>, <<"000002", "draft", 0>>}

\* (asset id, asset path)
AssetNames == {<<"a", "p1">>, <<"b", "p2">>}

AssetReports ==
    {AssetValidationReport(k[1], k[2], k[3], n[1], n[2], errs) :
        k \in AssetKeys, n \in AssetNames, errs \in {<< >>, <<X1>>}}

\* the collections: up to two reports, no two on the same asset
AssetCollections ==
    {<< >>} \cup {<<r>> : r \in AssetReports}
    \cup {c \in AssetReports \X AssetReports :
              <<c[1].dandiset_identifier, c[1].dandiset_version, c[1].asset_idx>>
                  # <<c[2].dandiset_identifier, c[2].dandiset_version, c[2].asset_idx>>}

\* str(getattr(r, p))
str_getattr(r, p) ==
    IF p = "asset_idx" THEN str(r.asset_idx)
    ELSE IF p = "dandiset_identifier" THEN r.dandiset_identifier
    ELSE r.dandiset_version

\* the dict {keys[i]: reports[i] for i}: of the reports of one key the last stays
keyed(reports, keys) ==
    [k \in {keys[i] : i \in 1..Len(reports)} |->
        reports[CHOOSE i \in 1..Len(reports) :
                    /\ keys[i] = k
                    /\ \A j \in (i + 1)..Len(reports) : keys[j] # k]]

\* The version of the first report taken for every report.
_key_reports_one_version(reports) ==
    IF reports # << >>
    THEN [raised |-> FALSE,
          d |-> keyed(reports,
                      [i \in 1..Len(reports) |->
                          Path(<<reports[i].dandiset_identifier, reports[1].dandiset_version,
                                 str(reports[i].asset_idx)>>)])]
    ELSE [raised |-> FALSE, d |-> << >>]

_key_reports(reports) ==
    IF reports # << >>
    THEN LET r0 == reports[1]
             parts == IF r0.cls = "DandisetValidationReport"
                      THEN <<"dandiset_identifier", "dandiset_version">>
                      ELSE <<"dandiset_identifier", "dandiset_version", "asset_idx">>
         IN IF r0.cls \notin {"DandisetValidationReport", "AssetValidationReport"}
            THEN [raised |-> TRUE, d |-> << >>]
            ELSE [raised |-> FALSE,
                  d |-> keyed(reports,
                              [i \in 1..Len(reports) |->
                                  Path([n \in 1..Len(parts) |->
                                           str_getattr(reports[i], parts[n])])])]
    ELSE [raised |-> FALSE, d |-> << >>]

_AssetValidationDiffReport(entry, r1, r2) ==
    LET e1 == errs_of(r1)
        e2 == errs_of(r2)
    IN [dandiset_identifier |-> entry[1], dandiset_version |-> entry[2],
        asset_id |-> IF r1 # None THEN r1.asset_id ELSE r2.asset_id,
        asset_path |-> IF r1 # None THEN r1.asset_path ELSE r2.asset_path,
        asset_idx |-> int(entry[3]),
        pydantic_validation_errs1 |-> e1.pydantic_errs,
        pydantic_validation_errs2 |-> e2.pydantic_errs,
        jsonschema_validation_errs1 |-> e1.jsonschema_errs,
        jsonschema_validation_errs2 |-> e2.jsonschema_errs]

\* the loop over the sorted entries
RECURSIVE AssetDiffLoop(_, _, _, _)
AssetDiffLoop(entries, rs1, rs2, rs) ==
    IF entries = << >> THEN rs
    ELSE LET entry == Head(entries)
             r1 == dict_get(rs1, entry, None)
             r2 == dict_get(rs2, entry, None)
             e1 == errs_of(r1)
             e2 == errs_of(r2)
         IN IF ~any(<<e1.pydantic_errs, e2.pydantic_errs,
                      e1.jsonschema_errs, e2.jsonschema_errs>>)
            THEN AssetDiffLoop(Tail(entries), rs1, rs2, rs)
            ELSE AssetDiffLoop(Tail(entries), rs1, rs2,
                               Append(rs, _AssetValidationDiffReport(entry, r1, r2)))

_asset_validation_diff_reports(reports_1, reports_2) ==
    LET rs1 == _key_reports(reports_1)
        rs2 == _key_reports(reports_2)
    IN IF rs1.raised \/ rs2.raised THEN [raised |-> TRUE, rs |-> << >>]
       ELSE [raised |-> FALSE,
             rs |-> AssetDiffLoop(sorted((DOMAIN rs1.d) \cup (DOMAIN rs2.d)),
                                  rs1.d, rs2.d, << >>)]

InitAr ==
    /\ CtrInit /\ PydIdle /\ JsIdle /\ RawIdle /\ MdIdle /\ SumIdle /\ OrdIdle /\ DrIdle /\ EscIdle /\ MigIdle
    /\ asset_reports1 \in AssetCollections
    /\ asset_reports2 \in AssetCollections
    /\ asset_diff_reports = << >>
    /\ ar_raised = FALSE
    /\ ar_stage = "input"

not_ar_vars == <<ctr_vars, pyd_vars, js_vars, raw_vars, md_vars, sum_vars, ord_vars, dr_vars, esc_vars, mig_vars>>

AssetValidationDiffReports ==
    LET r == _asset_validation_diff_reports(asset_reports1, asset_reports2)
    IN /\ ar_stage = "input"
       /\ asset_diff_reports' = r.rs
       /\ ar_raised' = r.raised
       /\ ar_stage' = "diffed"
       /\ UNCHANGED <<asset_reports1, asset_reports2, not_ar_vars>>

NextAr == AssetValidationDiffReports

SpecAr == InitAr /\ [][NextAr]_vars

\* two collections of dandiset validation reports, or two of asset validation
\* reports, are compared
InitDiffReports == InitDr \/ InitAr

NextDiffReports ==
    \/ DandisetValidationDiffReports
    \/ OutputDandisetValidationDiffReports
    \/ AssetValidationDiffReports

SpecDiffReports == InitDiffReports /\ [][NextDiffReports]_vars

-----------------------------------------------------------------------------
(* pydantic_err_rep called with a dict that may lack keys *)

RawKeys == {"type", "msg", "loc"}

\* the dict with the keys of keys, of type "T", msg "m" and the given loc
RawDict(keys, loc) ==
    [k \in keys |-> IF k = "type" THEN "T" ELSE IF k = "msg" THEN "m" ELSE PyList(loc)]

RawDicts ==
    {RawDict(keys, loc) : keys \in {x \in SUBSET RawKeys : "loc" \in x}, loc \in PydLocs}
    \cup {RawDict(keys, << >>) : keys \in {x \in SUBSET RawKeys : "loc" \notin x}}

\* err["type"], err["msg"] or err["loc"] raises KeyError
raises_KeyError(err) == ~(RawKeys \subseteq DOMAIN err)

InitRaw ==
    /\ CtrInit /\ PydIdle /\ JsIdle /\ MdIdle /\ SumIdle /\ OrdIdle /\ DrIdle /\ ArIdle /\ EscIdle /\ MigIdle
    /\ raw_err_in \in RawDicts
    /\ raw_err = raw_err_in
    /\ raw_path \in {"p1", "p2"}
    /\ raw_ret = << >>
    /\ raw_raised = FALSE
    /\ raw_stage = "input"

not_raw_vars == <<ctr_vars, pyd_vars, js_vars, md_vars, sum_vars, ord_vars, dr_vars, ar_vars, esc_vars, mig_vars>>

\* pydantic_err_rep(raw_err, raw_path); the function assigns to nothing of err
PydanticErrRep ==
    /\ raw_stage = "input"
    /\ raw_raised' = raises_KeyError(raw_err)
    /\ raw_ret' = IF raises_KeyError(raw_err) THEN << >>
                  ELSE pydantic_err_rep(raw_err, raw_path)
    /\ raw_stage' = "called"
    /\ UNCHANGED <<raw_err_in, raw_err, raw_path, not_raw_vars>>

NextRaw == PydanticErrRep

SpecRaw == InitRaw /\ [][NextRaw]_vars

-----------------------------------------------------------------------------
(* tools/md.py: validation_err_diff_detailed_tables and                     *)
(* validation_err_diff_summary.  A table is the record of what it is        *)
(* generated from, the returned text the sequence of its tables.            *)

\* the strings of the elements of the loc of a category
LocStrs(loc) == [n \in 1..Len(loc) |-> loc[n].s]

\* a < b for two categories (type, msg, loc)
CatLess(a, b) ==
    IF a[1] # b[1] THEN StrLess(a[1], b[1])
    ELSE IF a[2] # b[2] THEN StrLess(a[2], b[2])
    ELSE SeqStrLess(LocStrs(a[3]), LocStrs(b[3]))

\* sorted(diff.items()), sorted(err_diff): the keys in ascending order
RECURSIVE sorted_cats(_)
sorted_cats(set) ==
    IF set = {} THEN << >>
    ELSE LET least == CHOOSE x \in set : \A y \in set \ {x} : CatLess(x, y)
         IN <<least>> \o sorted_cats(set \ {least})

\* table_gen_func(cat, diff, is_removed=...)
table_gen_func(cat, diff, is_removed) == [cat |-> cat, diff |-> diff, is_removed |-> is_removed]

\* <a id="..."></a> put before the table when anchors are given
anchored(table, cat, detailed_tb_anchors) ==
    [anchor |-> IF detailed_tb_anchors # None THEN detailed_tb_anchors[cat] ELSE None,
     table |-> table]

\* The test for removed and gained both non-empty left out.
both_sides_never(removed, gained) == FALSE

\* if removed and gained
both_sides(removed, gained) == CounterTruthy(removed) /\ CounterTruthy(gained)

RECURSIVE DetailedTablesLoop(_, _, _, _)
DetailedTablesLoop(todo, diff, detailed_tb_anchors, tables) ==
    IF todo = << >> THEN [raised |-> FALSE, tables |-> tables]
    ELSE LET cat == Head(todo)
             removed == diff[cat][1]
             gained == diff[cat][2]
         IN IF ~CounterTruthy(removed) /\ ~CounterTruthy(gained)
            THEN DetailedTablesLoop(Tail(todo), diff, detailed_tb_anchors, tables)
            ELSE IF both_sides(removed, gained)
            THEN [raised |-> TRUE, tables |-> << >>]
            ELSE LET table == IF CounterTruthy(removed)
                              THEN table_gen_func(cat, removed, TRUE)
                              ELSE table_gen_func(cat, gained, FALSE)
                 IN DetailedTablesLoop(Tail(todo), diff, detailed_tb_anchors,
                                       Append(tables, anchored(table, cat, detailed_tb_anchors)))

validation_err_diff_detailed_tables(diff, detailed_tb_anchors) ==
    DetailedTablesLoop(sorted_cats(DOMAIN diff), diff, detailed_tb_anchors, << >>)

\* validation_err_count_table(c): a row for each category, in ascending order
validation_err_count_table(c) ==
    LET ks == sorted_cats(DOMAIN c)
    IN [n \in 1..Len(ks) |-> <<ks[n], c[ks[n]]>>]

\* {cat: f"cat-{i}" for i, cat in enumerate(sorted(err_diff))}
tb_anchors(err_diff) ==
    LET ks == sorted_cats(DOMAIN err_diff)
    IN [cat \in DOMAIN err_diff |->
           [base |-> "cat", i |-> (CHOOSE n \in 1..Len(ks) : ks[n] = cat) - 1]]

\* validation_err_diff_table(diff, detailed_tb_anchors)
validation_err_diff_table(diff, detailed_tb_anchors) ==
    LET ks == sorted_cats(DOMAIN diff)
    IN [n \in 1..Len(ks) |->
           <<[cat |-> ks[n], anchor |-> detailed_tb_anchors[ks[n]]],
             CounterTotal(diff[ks[n]][1]), CounterTotal(diff[ks[n]][2])>>]

\* validation_err_diff_summary(c1, c2, detailed_tb_func) on the dicts of c1, c2
validation_err_diff_summary(d1, d2) ==
    LET r == validation_err_diff(d1, d2)
        detailed_tb_anchors == tb_anchors(r.diff)
        tables == validation_err_diff_detailed_tables(r.diff, detailed_tb_anchors)
    IN [d1 |-> r.d1, d2 |-> r.d2, err_diff |-> r.diff, raised |-> tables.raised,
        text |-> [count_table1 |-> validation_err_count_table(counts_by_cat(r.d1)),
                  count_table2 |-> validation_err_count_table(counts_by_cat(r.d2)),
                  diff_table |-> validation_err_diff_table(r.diff, detailed_tb_anchors),
                  diff_detailed_tables |-> tables.tables]]

\* The categories of the diffs given to validation_err_diff_detailed_tables,
\* and for each the multiset of removed and of gained errors it may hold.
MdCats == {<<"T", "m", <<LocStr("a"), LocStr("[*]")>>>>,
           <<"T", "m", <<LocStr("b")>>>>,
           <<"U", "m", <<LocStr("a")>>>>}
MdRemoved(cat) == <<cat[1], cat[2], cat[3], "p1">> :> 1
MdGained(cat) == <<cat[1], cat[2], cat[3], "p2">> :> 2
MdPairs(cat) == {EmptyCounter, MdRemoved(cat)} \X {EmptyCounter, MdGained(cat)}
MdDiffs ==
    UNION {{f \in [cs -> UNION {MdPairs(cat) : cat \in cs}] : \A cat \in cs : f[cat] \in MdPairs(cat)} :
              cs \in SUBSET MdCats}

InitMd ==
    /\ CtrInit /\ PydIdle /\ JsIdle /\ RawIdle /\ SumIdle /\ OrdIdle /\ DrIdle /\ ArIdle /\ EscIdle /\ MigIdle
    /\ md_diff \in MdDiffs
    /\ md_tables = << >>
    /\ md_raised = FALSE
    /\ md_stage = "input"

not_md_vars == <<ctr_vars, pyd_vars, js_vars, raw_vars, sum_vars, ord_vars, dr_vars, ar_vars, esc_vars, mig_vars>>

\* validation_err_diff_detailed_tables(md_diff, table_gen_func, anchors), the
\* anchors None or those of the summary
DetailedTables(with_anchors) ==
    LET r == validation_err_diff_detailed_tables(
                 md_diff, IF with_anchors THEN tb_anchors(md_diff) ELSE None)
    IN /\ md_stage = "input"
       /\ md_raised' = r.raised
       /\ md_tables' = r.tables
       /\ md_stage' = "called"
       /\ UNCHANGED <<md_diff, not_md_vars>>

NextMd == \E with_anchors \in BOOLEAN : DetailedTables(with_anchors)

SpecMd == InitMd /\ [][NextMd]_vars

\* validation_err_diff_summary(ci, cj, ...) for the two counters, in either order
Summary(i, j) ==
    LET r == validation_err_diff_summary(err_ctrs_by_cat[i], err_ctrs_by_cat[j])
    IN /\ i # j
       /\ err_ctrs_by_cat' = [err_ctrs_by_cat EXCEPT ![i] = r.d1, ![j] = r.d2]
       /\ call' = [op |-> "summary", i |-> i, j |-> j, cat |-> NoCat]
       /\ raised' = r.raised
       /\ ret_summary' = IF r.raised THEN << >> ELSE r.text
       /\ ret_diff' = r.err_diff
       /\ ret_ctrs' = << >>
       /\ ret_cats' = {}
       /\ ret_counts' = << >>
       /\ UNCHANGED <<categorizer, counted, pyd_vars, js_vars, raw_vars, md_vars, ord_vars, dr_vars, ar_vars,
                    esc_vars, mig_vars>>

\* two counters are fed and their differences summarised
NextSum ==
    \/ \E i \in Ctrs, errs \in ErrLists : Count(i, errs)
    \/ \E i \in Ctrs, j \in Ctrs : Summary(i, j)

SpecSum == Init /\ [][NextSum]_vars

-----------------------------------------------------------------------------
(* The same errors counted in different orders and splits *)

InitOrd ==
    /\ CtrInit /\ PydIdle /\ JsIdle /\ RawIdle /\ MdIdle /\ SumIdle /\ DrIdle /\ ArIdle /\ EscIdle /\ MigIdle
    /\ ord_in \in ErrLists \X ErrLists \X ErrLists
    /\ ord_ctrs = << >>
    /\ ord_diffs = << >>
    /\ ord_stage = "input"

not_ord_vars == <<ctr_vars, pyd_vars, js_vars, raw_vars, md_vars, sum_vars, dr_vars, ar_vars, esc_vars, mig_vars>>

\* Three new counters: count(A) then count(B), count(B) then count(A), and
\* count(A followed by B); each is then diffed against a new counter that
\* counted C.
CountOrders ==
    LET A == ord_in[1]
        B == ord_in[2]
        C == ord_in[3]
        ctrs == <<count(count(<< >>, A), B), count(count(<< >>, B), A), count(<< >>, A \o B)>>
    IN /\ ord_stage = "input"
       /\ ord_ctrs' = ctrs
       /\ ord_diffs' = [k \in 1..3 |-> validation_err_diff(ctrs[k], count(<< >>, C)).diff]
       /\ ord_stage' = "counted"
       /\ UNCHANGED <<ord_in, not_ord_vars>>

NextOrd == CountOrders

SpecOrd == InitOrd /\ [][NextOrd]_vars

-----------------------------------------------------------------------------
(* tools/md.py: escape.  A text is the sequence of its characters, each a    *)
(* string of length one; a + b is the concatenation a \o b.                  *)

\* The grave accent (U+0060), which a TLA+ string cannot hold.
GraveAccent == "U+0060"

\* set(r"\`*_{}[]()#+-.!")
BASE_SPECIAL_CHARS ==
    {"\\", GraveAccent, "*", "_", "{", "}", "[", "]", "(", ")", "#", "+", "-", ".", "!"}

\* The vertical bar left as it is.
escaped_pipe_raw(c) ==
    IF c \in BASE_SPECIAL_CHARS THEN <<"\\", c>>
    ELSE IF c = "<" THEN <<"&", "l", "t", ";">>
    ELSE IF c = ">" THEN <<"&", "g", "t", ";">>
    ELSE <<c>>

\* the value of escaped for the character c in the loop of escape
escaped(c) ==
    IF c \in BASE_SPECIAL_CHARS THEN <<"\\", c>>
    ELSE IF c = "<" THEN <<"&", "l", "t", ";">>
    ELSE IF c = ">" THEN <<"&", "g", "t", ";">>
    ELSE IF c = "|" THEN <<"&", "#", "1", "2", "4", ";">>
    ELSE <<c>>

\* "".join(escaped_substrs)
RECURSIVE escape(_)
escape(text) ==
    IF text = << >> THEN << >>
    ELSE escaped(Head(text)) \o escape(Tail(text))

\* The characters of the texts: the special ones, and "a", "&", ";" and " ".
EscChars == BASE_SPECIAL_CHARS \cup {"<", ">", "|", "a", "&", ";", " "}
EscLensA == {0, 1, 2}
EscLensB == {0, 1}

InitEsc ==
    /\ CtrInit /\ PydIdle /\ JsIdle /\ RawIdle /\ MdIdle /\ SumIdle /\ OrdIdle /\ DrIdle /\ ArIdle
    /\ MigIdle
    /\ \E n \in EscLensA : esc_a \in [1..n -> EscChars]
    /\ \E n \in EscLensB : esc_b \in [1..n -> EscChars]
    /\ esc_out = << >>
    /\ esc_stage = "input"

not_esc_vars == <<ctr_vars, pyd_vars, js_vars, raw_vars, md_vars, sum_vars, ord_vars, dr_vars, ar_vars, mig_vars>>

\* escape is called with esc_a, with esc_b and with esc_a + esc_b
Escape ==
    /\ esc_stage = "input"
    /\ esc_out' = [a |-> escape(esc_a), b |-> escape(esc_b), ab |-> escape(esc_a \o esc_b)]
    /\ esc_stage' = "escaped"
    /\ UNCHANGED <<esc_a, esc_b, not_esc_vars>>

NextEsc == Escape

SpecEsc == InitEsc /\ [][NextEsc]_vars

-----------------------------------------------------------------------------
(* cmd_funcs/migrate_manifests_dandisets.py.  The manifest is a directory of *)
(* dandiset directories of version directories; a JSON object is a function  *)
(* from its keys.                                                            *)

\* (identifier, version) of the version directories of the manifest
MigKeys == {<<"000001", "0.210812.1448">>, <<"000001", "draft">>, <<"000002", "draft">>}

\* What a version directory holds: no dandiset metadata file, a metadata
\* instance that migrate returns the migrated instance of, or one for which
\* migrate raises ValueError or NotImplementedError.
MigKinds == {"no_file", "migrates", "ValueError", "NotImplementedError"}

\* the classes that inherit from BaseException
ExceptionClasses == {"ValueError", "NotImplementedError", "TypeError"}

\* except (NotImplemented, ValueError): the objects the clause names
ExceptClause == <<"NotImplemented", "ValueError">>

\* What becomes of an exception exc raised in the try block when it reaches
\* the except clause: Python raises TypeError ("catching classes that do not
\* inherit from BaseException is not allowed") if the clause names an object
\* that is not an exception class, else exc is caught if the clause names its
\* class and propagates if not.
except_match(clause, exc) ==
    IF \E n \in 1..Len(clause) : clause[n] \notin ExceptionClasses THEN "TypeError"
    ELSE IF \E n \in 1..Len(clause) : clause[n] = exc THEN "caught"
    ELSE exc

\* the object migrate returns for the metadata instance of a version directory
migrate(key) == [schemaVersion |-> "current", identifier |-> key[1], version |-> key[2]]

\* the dummy instance written when the migration has failed
MigrationFailed(exc) == [metadata_migration_failed |-> exc]

InitMig ==
    /\ CtrInit /\ PydIdle /\ JsIdle /\ RawIdle /\ MdIdle /\ SumIdle /\ OrdIdle /\ DrIdle /\ ArIdle
    /\ EscIdle
    /\ mig_manifest \in [MigKeys -> MigKinds]
    /\ mig_todo = << >>
    /\ mig_out = << >>
    /\ mig_warnings = << >>
    /\ mig_raised = FALSE
    /\ mig_stage = "input"

not_mig_vars == <<ctr_vars, pyd_vars, js_vars, raw_vars, md_vars, sum_vars, ord_vars, dr_vars, ar_vars, esc_vars>>

\* create_or_replace_dir(output_dir); the two loops go through the dandiset
\* directories and their version directories, each sorted by name
MigrateStart ==
    /\ mig_stage = "input"
    /\ mig_out' = << >>
    /\ mig_todo' = sorted(DOMAIN mig_manifest)
    /\ mig_stage' = "running"
    /\ UNCHANGED <<mig_manifest, mig_warnings, mig_raised, not_mig_vars>>

\* the body of the inner loop for the next version directory
MigrateVersionDir ==
    /\ mig_stage = "running"
    /\ mig_todo # << >>
    /\ LET key == Head(mig_todo)
           kind == mig_manifest[key]
           stage_after == IF Tail(mig_todo) = << >> THEN "done" ELSE "running"
       IN IF kind = "no_file"
          THEN /\ mig_todo' = Tail(mig_todo)
               /\ mig_stage' = stage_after
               /\ UNCHANGED <<mig_out, mig_warnings, mig_raised>>
          ELSE IF kind = "migrates"
          THEN /\ mig_out' = (key :> migrate(key)) @@ mig_out
               /\ mig_todo' = Tail(mig_todo)
               /\ mig_stage' = stage_after
               /\ UNCHANGED <<mig_warnings, mig_raised>>
          ELSE IF except_match(ExceptClause, kind) = "caught"
          THEN /\ mig_warnings' = Append(mig_warnings, key)
               /\ mig_out' = (key :> MigrationFailed(kind)) @@ mig_out
               /\ mig_todo' = Tail(mig_todo)
               /\ mig_stage' = stage_after
               /\ UNCHANGED mig_raised
          ELSE /\ mig_raised' = TRUE
               /\ mig_stage' = "aborted"
               /\ UNCHANGED <<mig_todo, mig_out, mig_warnings>>
    /\ UNCHANGED <<mig_manifest, not_mig_vars>>

NextMig ==
    \/ MigrateStart
    \/ MigrateVersionDir

SpecMig == InitMig /\ [][NextMig]_vars

-----------------------------------------------------------------------------
(* What a caller can observe of a counter *)

\* c[cat] as a value, read without going through the lookup
ValueAt(i, cat) ==
    IF cat \in DOMAIN err_ctrs_by_cat[i] THEN err_ctrs_by_cat[i][cat] ELSE EmptyCounter

\* the count of error e under category cat in counter i
CountAt(i, cat, e) == CounterGet(ValueAt(i, cat), e)

SameMultiset(a, b) == \A e \in (DOMAIN a) \cup (DOMAIN b) : CounterGet(a, e) = CounterGet(b, e)

\* cats(), counts_by_cat and c[x] for every x
Observed(i) ==
    <<cats(err_ctrs_by_cat[i]), counts_by_cat(err_ctrs_by_cat[i]),
      [x \in AllCats |-> ValueAt(i, x)]>>

\* the categories into which counter i has counted at least one error
CountedCats(i) == {err_categorizer(e) : e \in {x \in Errs : counted[i][x] > 0}}

\* the number of errors counter i has counted into cat
CountedInto(i, cat) ==
    SumOver(counted[i], {e \in Errs : err_categorizer(e) = cat})

Max(a, b) == IF a >= b THEN a ELSE b

\* the pair the last diff gives for cat, two empty multisets when it is omitted
DiffAt(cat) == IF cat \in DOMAIN ret_diff THEN ret_diff[cat] ELSE <<EmptyCounter, EmptyCounter>>

QueryOps == {"getitem", "items", "cats", "counts_by_cat", "diff"}

-----------------------------------------------------------------------------
(* Claims *)

\* C1: a category is a key of validation_err_diff(c1, c2) iff the per-error
\* multisets c1[cat] and c2[cat] differ; no emitted category has removed and
\* gained both empty; counters that counted identical multisets give an empty diff.
C1_DiffKeysIffDiffer ==
    call.op = "diff" =>
        /\ \A cat \in AllCats :
               cat \in DOMAIN ret_diff
                   <=> ~SameMultiset(ValueAt(call.i, cat), ValueAt(call.j, cat))
        /\ \A cat \in DOMAIN ret_diff :
               CounterTruthy(ret_diff[cat][1]) \/ CounterTruthy(ret_diff[cat][2])
        /\ (counted[1] = counted[2] => ret_diff = << >>)

\* a diff that emits one category (with only its gained side non-empty) and
\* omits another in which both counters hold the same non-empty multiset
C1_Witness ==
    /\ call.op = "diff"
    /\ \E cat \in DOMAIN ret_diff :
           ~CounterTruthy(ret_diff[cat][1]) /\ CounterTruthy(ret_diff[cat][2])
    /\ \E cat \in AllCats \ DOMAIN ret_diff : CounterTruthy(ValueAt(call.i, cat))

\* C2: for every emitted category and error e, removed[e] = max(c1[cat][e] -
\* c2[cat][e], 0) and gained[e] = max(c2[cat][e] - c1[cat][e], 0), no element
\* with count 0; every category of c1.cats() union c2.cats() is examined and no
\* other; a category counted only in c1 gives (c1[cat], empty), one counted
\* only in c2 gives (empty, c2[cat]).
C2_DiffRemovedGained ==
    call.op = "diff" =>
        /\ DOMAIN ret_diff \subseteq
               cats(err_ctrs_by_cat[call.i]) \cup cats(err_ctrs_by_cat[call.j])
        /\ \A cat \in cats(err_ctrs_by_cat[call.i]) \cup cats(err_ctrs_by_cat[call.j]) :
               /\ \A e \in Errs :
                      /\ CounterGet(DiffAt(cat)[1], e)
                             = Max(CountAt(call.i, cat, e) - CountAt(call.j, cat, e), 0)
                      /\ CounterGet(DiffAt(cat)[2], e)
                             = Max(CountAt(call.j, cat, e) - CountAt(call.i, cat, e), 0)
               /\ \A e \in DOMAIN DiffAt(cat)[1] : DiffAt(cat)[1][e] > 0
               /\ \A e \in DOMAIN DiffAt(cat)[2] : DiffAt(cat)[2][e] > 0
        /\ \A cat \in CountedCats(call.i) \ CountedCats(call.j) :
               /\ cat \in DOMAIN ret_diff
               /\ ret_diff[cat] = <<ValueAt(call.i, cat), EmptyCounter>>
        /\ \A cat \in CountedCats(call.j) \ CountedCats(call.i) :
               /\ cat \in DOMAIN ret_diff
               /\ ret_diff[cat] = <<EmptyCounter, ValueAt(call.j, cat)>>

\* a diff with a category counted only in its second counter, and a category
\* in which an error counted twice in the first and once in the second is removed once
C2_Witness ==
    /\ call.op = "diff"
    /\ CountedCats(call.j) \ CountedCats(call.i) # {}
    /\ \E cat \in DOMAIN ret_diff, e \in Errs :
           /\ CountAt(call.i, cat, e) = 2
           /\ CountAt(call.j, cat, e) = 1
           /\ CounterGet(ret_diff[cat][1], e) = 1

\* C3: after any sequence of operations, cats() is exactly the set of
\* categories into which at least one error has been counted.
C3_CatsAreCountedCats ==
    \A i \in Ctrs : cats(err_ctrs_by_cat[i]) = CountedCats(i)

\* C4: counts_by_cat maps each category with at least one counted error to the
\* number of errors counted into it and has no other key (none with value 0).
C4_CountsByCatOfCounted ==
    call.op = "counts_by_cat" =>
        /\ DOMAIN ret_counts = CountedCats(call.i)
        /\ \A cat \in DOMAIN ret_counts :
               ret_counts[cat] = CountedInto(call.i, cat) /\ ret_counts[cat] > 0

\* C5: querying never mutates: a lookup, items(), cats(), counts_by_cat or a
\* diff leaves cats(), counts_by_cat and c[x] for every x of both counters as
\* they were.
C5_QueryNeverMutates ==
    [][call'.op \in QueryOps => \A i \in Ctrs : Observed(i)' = Observed(i)]_vars

\* C6: looking up a category that has never been counted returns an empty
\* multiset and does not raise.
C6_UnknownLookupEmpty ==
    (call.op = "getitem" /\ call.cat \notin CountedCats(call.i)) =>
        /\ ~raised
        /\ call.cat \in DOMAIN ret_ctrs
        /\ ret_ctrs[call.cat].val = EmptyCounter

\* a lookup of a never-counted category in a counter that has counted another
C6_Witness ==
    /\ call.op = "getitem"
    /\ call.cat \notin CountedCats(call.i)
    /\ CountedCats(call.i) # {}
    /\ ~raised

\* C7: mutating a multiset returned by c[cat] or inside items() changes
\* nothing a later c[cat], items(), cats() or counts_by_cat returns.
C7_CopyIsolation ==
    [][call'.op = "mutate" => \A i \in Ctrs : Observed(i)' = Observed(i)]_vars

\* a returned copy of a non-empty internal multiset, mutated so that it differs
\* from the multiset the counter still holds
C7_Witness ==
    /\ call.op = "mutate"
    /\ CounterTruthy(ValueAt(call.i, call.cat))
    /\ ret_ctrs[call.cat].val # ValueAt(call.i, call.cat)

\* C8: count(errs) raises the count of each error e under categorizer(e) by
\* the number of occurrences of e in errs (the step's growth of the history
\* counted) and changes no other count; a count call lowers no per-error count
\* and no category total.
C8_CountAddsOccurrences ==
    [][call'.op = "count" =>
          \A i \in Ctrs :
              IF i = call'.i
              THEN /\ \A cat \in AllCats, e \in Errs :
                          CountAt(i, cat, e)' =
                              CountAt(i, cat, e)
                              + (IF cat = err_categorizer(e)
                                 THEN counted'[i][e] - counted[i][e] ELSE 0)
                   /\ \A cat \in AllCats :
                          CounterTotal(ValueAt(i, cat))' >= CounterTotal(ValueAt(i, cat))
              ELSE err_ctrs_by_cat'[i] = err_ctrs_by_cat[i]
      ]_vars

\* a count call after which an error has been counted twice into a counter
\* that holds it with count 2
C8_Witness ==
    /\ call.op = "count"
    /\ \E e \in Errs :
           /\ counted[call.i][e] = 2
           /\ CountAt(call.i, err_categorizer(e), e) = 2

\* the error tuple (type, msg, loc, path) of the k-th error of in_errs
ErrTuple(k) == pydantic_err_rep(in_errs[k].err, in_errs[k].path)

\* two locs of the same shape: same length, integers at the same positions,
\* the same string wherever there is a string
SameShape(a, b) ==
    /\ Len(a) = Len(b)
    /\ \A n \in 1..Len(a) : a[n].isInt = b[n].isInt /\ (~a[n].isInt => a[n] = b[n])

WithWildcards(loc) == [n \in 1..Len(loc) |-> IF loc[n].isInt THEN LocStr("[*]") ELSE loc[n]]

\* C9: pydantic_err_categorizer maps (type, msg, loc, path) to (type, msg, loc')
\* with every integer of loc replaced by "[*]", every string kept in place and
\* the path dropped; errors of the same type, msg and loc shape get the same
\* category whatever their indices and paths.
C9_CategorizerGeneralizesLoc ==
    stage = "categorized" =>
        /\ \A k \in 1..Len(in_errs) :
               /\ Len(out_cats[k]) = 3
               /\ out_cats[k][1] = ErrTuple(k)[1]
               /\ out_cats[k][2] = ErrTuple(k)[2]
               /\ Len(out_cats[k][3]) = Len(ErrTuple(k)[3])
               /\ \A n \in 1..Len(ErrTuple(k)[3]) :
                      IF ErrTuple(k)[3][n].isInt
                      THEN out_cats[k][3][n] = LocStr("[*]")
                      ELSE out_cats[k][3][n] = ErrTuple(k)[3][n]
        /\ \A k \in 1..Len(in_errs), m \in 1..Len(in_errs) :
               (/\ ErrTuple(k)[1] = ErrTuple(m)[1]
                /\ ErrTuple(k)[2] = ErrTuple(m)[2]
                /\ SameShape(ErrTuple(k)[3], ErrTuple(m)[3]))
                   => out_cats[k] = out_cats[m]

\* two categorised errors of one shape, with different indices and from
\* different data instances, in one category
C9_Witness ==
    /\ stage = "categorized"
    /\ Len(in_errs) = 2
    /\ ErrTuple(1)[3] # ErrTuple(2)[3]
    /\ ErrTuple(1)[4] # ErrTuple(2)[4]
    /\ \E n \in 1..Len(ErrTuple(1)[3]) : ~ErrTuple(1)[3][n].isInt
    /\ out_cats[1] = out_cats[2]

\* the key the k-th error dict of in_errs is counted under
PydKey(k) ==
    <<in_errs[k].err.type, in_errs[k].err.msg,
      IF in_compress THEN WithWildcards(in_errs[k].err.loc.list)
      ELSE in_errs[k].err.loc.list>>

\* C10: count_pydantic_validation_errs(errs, compress) returns a multiset in
\* which each key (type, msg, tuple(loc)) counts the input errors that
\* normalize to it, integers of loc being replaced by "[*]" iff compress; errors
\* differing only in array indices share one key under compress and keep
\* separate keys without it; the counts sum to len(errs).
C10_CountPydanticCompress ==
    stage = "counted" =>
        /\ DOMAIN out_ctr = {PydKey(k) : k \in 1..Len(in_errs)}
        /\ \A key \in DOMAIN out_ctr :
               out_ctr[key] = Cardinality({k \in 1..Len(in_errs) : PydKey(k) = key})
        /\ CounterTotal(out_ctr) = Len(in_errs)
        /\ \A k \in 1..Len(in_errs), m \in 1..Len(in_errs) :
               (/\ in_errs[k].err.type = in_errs[m].err.type
                /\ in_errs[k].err.msg = in_errs[m].err.msg
                /\ in_errs[k].err.loc # in_errs[m].err.loc
                /\ SameShape(in_errs[k].err.loc.list, in_errs[m].err.loc.list))
                   => IF in_compress
                      THEN \E key \in DOMAIN out_ctr :
                               /\ key[3] = WithWildcards(in_errs[k].err.loc.list)
                               /\ key[3] = WithWildcards(in_errs[m].err.loc.list)
                               /\ out_ctr[key] = 2
                      ELSE \E key1 \in DOMAIN out_ctr, key2 \in DOMAIN out_ctr :
                               /\ key1 # key2
                               /\ key1[3] = in_errs[k].err.loc.list
                               /\ key2[3] = in_errs[m].err.loc.list
                               /\ out_ctr[key1] = 1 /\ out_ctr[key2] = 1

\* two errors differing only in an array index, counted with compress into one
\* key with count 2
C10_Witness ==
    /\ stage = "counted"
    /\ in_compress
    /\ Len(in_errs) = 2
    /\ in_errs[1].err.loc # in_errs[2].err.loc
    /\ \E key \in DOMAIN out_ctr : out_ctr[key] = 2

\* the inputs of in_errs equal to the k-th in type, msg, loc and path
SameError(k) ==
    {m \in 1..Len(in_errs) :
        /\ in_errs[m].err.type = in_errs[k].err.type
        /\ in_errs[m].err.msg = in_errs[k].err.msg
        /\ in_errs[m].err.loc = in_errs[k].err.loc
        /\ in_errs[m].path = in_errs[k].path}

\* C11: errors from different data instances are never merged into one count:
\* two errors with identical type, msg and loc but different paths normalise to
\* different tuples, land in the same category and keep separate per-error
\* counts; two errors share a count only if type, msg, loc and path are equal.
C11_PathKeepsCountsApart ==
    stage = "rep_counted" =>
        /\ \A k \in 1..Len(in_errs), m \in 1..Len(in_errs) :
               (/\ in_errs[k].err = in_errs[m].err
                /\ in_errs[k].path # in_errs[m].path)
                   => /\ ErrTuple(k) # ErrTuple(m)
                      /\ pydantic_err_categorizer(ErrTuple(k))
                             = pydantic_err_categorizer(ErrTuple(m))
                      /\ {ErrTuple(k), ErrTuple(m)}
                             \subseteq DOMAIN out_verr[pydantic_err_categorizer(ErrTuple(k))]
        /\ \A k \in 1..Len(in_errs) :
               LET cat == pydantic_err_categorizer(ErrTuple(k))
               IN /\ cat \in DOMAIN out_verr
                  /\ ErrTuple(k) \in DOMAIN out_verr[cat]
                  /\ out_verr[cat][ErrTuple(k)] = Cardinality(SameError(k))

\* the same error of two data instances, counted once each under one category
C11_Witness ==
    /\ stage = "rep_counted"
    /\ Len(in_errs) = 2
    /\ in_errs[1].err = in_errs[2].err
    /\ in_errs[1].path # in_errs[2].path
    /\ \E cat \in DOMAIN out_verr :
           /\ Cardinality(DOMAIN out_verr[cat]) = 2
           /\ \A e \in DOMAIN out_verr[cat] : out_verr[cat][e] = 1

\* C12: a == b for a JsonschemaValidationErrorType a iff b is a
\* JsonschemaValidationErrorType, the validators are equal, the two
\* validator_value have the same runtime type and are equal; a list and a tuple
\* of the same elements, or the integer 1 and the string "1", make the two
\* unequal, and so does any object of another class.
C12_EqByTypeAndValue ==
    js_stage = "compared" =>
        LET a == JsTypeOf(1)
            b == js_other
        IN /\ js_eq <=> (/\ b.cls = "JsonschemaValidationErrorType"
                         /\ a.validator = b.validator
                         /\ a.validator_value.ty = b.validator_value.ty
                         /\ PyEq(a.validator_value, b.validator_value))
           /\ (a.validator_value.ty # b.validator_value.ty => ~js_eq)
           /\ (a.validator_value = ValList(<<1, 2, 3>>)
                  /\ b.validator_value = ValTuple(<<1, 2, 3>>) => ~js_eq)
           /\ (a.validator_value = ValInt(1) /\ b.validator_value = ValStr("1") => ~js_eq)
           /\ (b.cls # "JsonschemaValidationErrorType" => ~js_eq)

\* the same validator with the integer 1 and the float 1.0, equal as values
\* and of different runtime types, compared unequal
C12_Witness ==
    /\ js_stage = "compared"
    /\ js_other.cls = "JsonschemaValidationErrorType"
    /\ js_other.validator = JsTypeOf(1).validator
    /\ JsTypeOf(1).validator_value = ValInt(1)
    /\ js_other.validator_value = ValFloat(1)
    /\ ~js_eq

\* the position in js_errs at which the type t first occurs
FirstOcc(t) == CHOOSE k \in 1..Len(js_errs) : JsTypeOf(k) = t /\ \A m \in 1..(k - 1) : JsTypeOf(m) # t

RECURSIVE SumCounts(_)
SumCounts(pairs) == IF pairs = << >> THEN 0 ELSE Head(pairs)[2] + SumCounts(Tail(pairs))

\* C13: get_linkml_err_counts(errs) returns exactly one (type, count) pair for
\* each distinct type of the input, distinct by validator, runtime type and
\* value; each count is the number of input errors of the type and the counts
\* sum to len(errs); the pairs are ordered by validator ascending, then count
\* descending, ties in the order of first occurrence; no errors give no pairs.
C13_LinkmlErrCounts ==
    js_stage = "counted" =>
        /\ {js_counts[i][1] : i \in 1..Len(js_counts)} = {JsTypeOf(k) : k \in 1..Len(js_errs)}
        /\ \A i \in 1..Len(js_counts), j \in 1..Len(js_counts) :
               js_counts[i][1] = js_counts[j][1] => i = j
        /\ \A i \in 1..Len(js_counts) :
               js_counts[i][2] =
                   Cardinality({k \in 1..Len(js_errs) : JsTypeOf(k) = js_counts[i][1]})
        /\ SumCounts(js_counts) = Len(js_errs)
        /\ \A i \in 1..Len(js_counts), j \in 1..Len(js_counts) :
               i < j =>
                   LET p == js_counts[i]
                       q == js_counts[j]
                   IN \/ StrLess(p[1].validator, q[1].validator)
                      \/ /\ p[1].validator = q[1].validator
                         /\ \/ p[2] > q[2]
                            \/ p[2] = q[2] /\ FirstOcc(p[1]) < FirstOcc(q[1])
        /\ (js_errs = << >> => js_counts = << >>)

\* three errors of one validator: a list, then a tuple of the same elements
\* twice, counted apart and the tuple, counted twice, put first
C13_Witness ==
    /\ js_stage = "counted"
    /\ Len(js_errs) = 3
    /\ JsTypeOf(1).validator_value = ValList(<<1, 2, 3>>)
    /\ JsTypeOf(2).validator_value = ValTuple(<<1, 2, 3>>)
    /\ JsTypeOf(3) = JsTypeOf(2)
    /\ JsTypeOf(1).validator = JsTypeOf(2).validator
    /\ js_counts = <<<<JsTypeOf(2), 2>>, <<JsTypeOf(1), 1>>>>

\* the report a collection holds for the key k, None if it holds none
ReportAt(reports, k) ==
    IF k[1] \in DOMAIN reports /\ k[2] \in DOMAIN reports[k[1]] THEN reports[k[1]][k[2]]
    ELSE None

\* the diff reports emitted for the key k
DiffReportsAt(k) ==
    {i \in 1..Len(diff_reports) :
        /\ diff_reports[i].dandiset_identifier = k[1]
        /\ diff_reports[i].dandiset_version = k[2]}

\* C14: an entity with a report in report-set 1 and none in report-set 2 goes
\* through _dandiset_validation_diff_reports, pydantic_err_rep, the two
\* counters and validation_err_diff without an exception; for each of its
\* errors e the diff of e's category has removed[e] equal to the number of
\* occurrences of e in the entity's list, and no gained error is the entity's.
C14_AsymmetricEntity ==
    \A k \in DrKeys :
        (/\ dr_stage \in {"diffed", "output"}
         /\ ReportAt(reports1, k) # None
         /\ ReportAt(reports2, k) = None)
            => /\ ~dr_raised
               /\ dr_stage = "output" =>
                      LET errs == ReportAt(reports1, k).pydantic_validation_errs
                      IN /\ \A n \in 1..Len(errs) :
                                LET e == pydantic_err_rep(errs[n], Path(k))
                                    cat == pydantic_err_categorizer(e)
                                IN /\ cat \in DOMAIN dr_diff
                                   /\ CounterGet(dr_diff[cat][1], e) = Occ(errs[n], errs)
                         /\ \A cat \in DOMAIN dr_diff :
                                \A g \in DOMAIN dr_diff[cat][2] : g[4] # Path(k)

\* an entity reported only in set 1, with one error twice, next to an entity
\* whose errors are in both sets: the error is removed twice
C14_Witness ==
    /\ dr_stage = "output"
    /\ \E k \in DrKeys :
           /\ ReportAt(reports1, k) # None
           /\ ReportAt(reports2, k) = None
           /\ ReportAt(reports1, k).pydantic_validation_errs = <<X1, X1>>
           /\ \E cat \in DOMAIN dr_diff :
                  CounterGet(dr_diff[cat][1], pydantic_err_rep(X1, Path(k))) = 2
    /\ \E k \in DrKeys :
           /\ ReportAt(reports1, k) # None
           /\ ReportAt(reports2, k) # None
           /\ ReportAt(reports2, k).pydantic_validation_errs # << >>

\* C15: _dandiset_validation_diff_reports considers every (identifier,
\* version) of either collection; for a key of only one collection the missing
\* side's pydantic and jsonschema error lists are empty and nothing is raised;
\* for a key of both, errs1 and errs2 are the lists of the respective reports.
C15_EveryKeyOfEither ==
    dr_stage = "diffed" =>
        /\ ~dr_raised
        /\ \A k \in DrKeys :
               LET r1 == ReportAt(reports1, k)
                   r2 == ReportAt(reports2, k)
                   p1 == IF r1 # None THEN r1.pydantic_validation_errs ELSE << >>
                   p2 == IF r2 # None THEN r2.pydantic_validation_errs ELSE << >>
                   j1 == IF r1 # None THEN r1.jsonschema_validation_errs ELSE << >>
                   j2 == IF r2 # None THEN r2.jsonschema_validation_errs ELSE << >>
               IN IF p1 # << >> \/ p2 # << >> \/ j1 # << >> \/ j2 # << >>
                  THEN /\ Cardinality(DiffReportsAt(k)) = 1
                       /\ \A i \in DiffReportsAt(k) :
                              /\ diff_reports[i].pydantic_validation_errs1 = p1
                              /\ diff_reports[i].pydantic_validation_errs2 = p2
                              /\ diff_reports[i].jsonschema_validation_errs1 = j1
                              /\ diff_reports[i].jsonschema_validation_errs2 = j2
                  ELSE DiffReportsAt(k) = {}

\* a key of collection 2 only (its identifier unknown to collection 1), a key
\* of collection 1 only under an identifier both know, and a key of both
C15_Witness ==
    /\ dr_stage = "diffed"
    /\ ~dr_raised
    /\ \E k \in DrKeys :
           /\ k[1] \notin DOMAIN reports1
           /\ DiffReportsAt(k) # {}
           /\ \A i \in DiffReportsAt(k) :
                  /\ diff_reports[i].pydantic_validation_errs1 = << >>
                  /\ diff_reports[i].pydantic_validation_errs2 # << >>
    /\ \E k \in DrKeys :
           /\ k[1] \in DOMAIN reports2
           /\ ReportAt(reports2, k) = None
           /\ DiffReportsAt(k) # {}
    /\ \E k \in DrKeys :
           /\ ReportAt(reports1, k) # None
           /\ ReportAt(reports2, k) # None
           /\ \A i \in DiffReportsAt(k) :
                  /\ diff_reports[i].pydantic_validation_errs1 # << >>
                  /\ diff_reports[i].pydantic_validation_errs2 # << >>
                  /\ diff_reports[i].pydantic_validation_errs1
                         # diff_reports[i].pydantic_validation_errs2

\* (identifier, version, index) of an asset report or an asset diff report
AssetKeyOf(r) == <<r.dandiset_identifier, r.dandiset_version, r.asset_idx>>

\* the positions of the reports of a collection on the asset of key k
AssetReportsAt(reports, k) == {i \in 1..Len(reports) : AssetKeyOf(reports[i]) = k}

\* C16: _asset_validation_diff_reports pairs a report of collection 1 with a
\* report of collection 2 iff they have the same identifier, version and index
\* in the assets array; asset id and asset path play no part in the pairing
\* and are copied from report 1 when there is one, else from report 2; the
\* diff report carries the index as asset_idx.
C16_AssetPairing ==
    ar_stage = "diffed" =>
        /\ ~ar_raised
        /\ \A i \in 1..Len(asset_diff_reports) :
               LET d == asset_diff_reports[i]
                   m1 == AssetReportsAt(asset_reports1, AssetKeyOf(d))
                   m2 == AssetReportsAt(asset_reports2, AssetKeyOf(d))
               IN /\ m1 \cup m2 # {}
                  /\ \A j \in 1..Len(asset_diff_reports) : AssetKeyOf(asset_diff_reports[j]) = AssetKeyOf(d) => j = i
                  /\ IF m1 = {} THEN d.pydantic_validation_errs1 = << >>
                     ELSE \A a \in m1 :
                              /\ d.pydantic_validation_errs1 = asset_reports1[a].pydantic_validation_errs
                              /\ d.asset_id = asset_reports1[a].asset_id
                              /\ d.asset_path = asset_reports1[a].asset_path
                  /\ IF m2 = {} THEN d.pydantic_validation_errs2 = << >>
                     ELSE \A b \in m2 :
                              /\ d.pydantic_validation_errs2 = asset_reports2[b].pydantic_validation_errs
                              /\ m1 = {} => /\ d.asset_id = asset_reports2[b].asset_id
                                            /\ d.asset_path = asset_reports2[b].asset_path
        /\ \A a \in 1..Len(asset_reports1), b \in 1..Len(asset_reports2) :
               (asset_reports1[a].pydantic_validation_errs # << >>
                    /\ asset_reports2[b].pydantic_validation_errs # << >>)
                   => ((\E i \in 1..Len(asset_diff_reports) :
                           /\ AssetKeyOf(asset_diff_reports[i]) = AssetKeyOf(asset_reports1[a])
                           /\ AssetKeyOf(asset_diff_reports[i]) = AssetKeyOf(asset_reports2[b])
                           /\ asset_diff_reports[i].pydantic_validation_errs1 # << >>
                           /\ asset_diff_reports[i].pydantic_validation_errs2 # << >>)
                       <=> AssetKeyOf(asset_reports1[a]) = AssetKeyOf(asset_reports2[b]))
        /\ \A k \in AssetKeys :
               (\E a \in AssetReportsAt(asset_reports1, k) \cup AssetReportsAt(asset_reports2, k) :
                    TRUE)
               /\ (\/ \E a \in AssetReportsAt(asset_reports1, k) :
                          asset_reports1[a].pydantic_validation_errs # << >>
                   \/ \E b \in AssetReportsAt(asset_reports2, k) :
                          asset_reports2[b].pydantic_validation_errs # << >>)
                   => \E i \in 1..Len(asset_diff_reports) : AssetKeyOf(asset_diff_reports[i]) = k

\* collection 1 reports on the assets at index 0 and 10 of one dandiset
\* version, collection 2 on the one at index 10 under another asset id and on
\* none at index 0: index 10 is paired and keeps the asset id of report 1,
\* index 0 is left alone
C16_Witness ==
    /\ ar_stage = "diffed"
    /\ Len(asset_diff_reports) = 2
    /\ asset_diff_reports[1].asset_idx = 0
    /\ asset_diff_reports[1].pydantic_validation_errs1 # << >>
    /\ asset_diff_reports[1].pydantic_validation_errs2 = << >>
    /\ asset_diff_reports[2].asset_idx = 10
    /\ asset_diff_reports[2].pydantic_validation_errs1 # << >>
    /\ asset_diff_reports[2].pydantic_validation_errs2 # << >>
    /\ \E b \in 1..Len(asset_reports2) :
           /\ asset_reports2[b].asset_idx = 10
           /\ asset_reports2[b].asset_id # asset_diff_reports[2].asset_id
    /\ \E b \in 1..Len(asset_reports2) :
           /\ asset_reports2[b].asset_idx = 0
           /\ asset_reports2[b].asset_id = asset_diff_reports[1].asset_id

\* C17: a diff in which one category has both removed and gained non-empty is
\* a valid result of validation_err_diff, and validation_err_diff_summary
\* renders it without raising, presenting the removed and the gained errors
\* of that category.
C17_SummaryRendersBothSides ==
    (/\ call.op = "summary"
     /\ \E cat \in DOMAIN ret_diff :
            CounterTruthy(ret_diff[cat][1]) /\ CounterTruthy(ret_diff[cat][2]))
        => /\ ~raised
           /\ \A cat \in DOMAIN ret_diff :
                  /\ CounterTruthy(ret_diff[cat][1]) =>
                         \E n \in 1..Len(ret_summary.diff_detailed_tables) :
                             /\ ret_summary.diff_detailed_tables[n].table.cat = cat
                             /\ ret_summary.diff_detailed_tables[n].table.diff = ret_diff[cat][1]
                  /\ CounterTruthy(ret_diff[cat][2]) =>
                         \E n \in 1..Len(ret_summary.diff_detailed_tables) :
                             /\ ret_summary.diff_detailed_tables[n].table.cat = cat
                             /\ ret_summary.diff_detailed_tables[n].table.diff = ret_diff[cat][2]

\* C18: validation_err_diff_detailed_tables raises ValueError iff some
\* category of the diff has both removed and gained non-empty; otherwise it
\* emits exactly one table for each category with a non-empty side, in
\* ascending category order, from removed with is_removed=True when removed is
\* non-empty and from gained with is_removed=False otherwise, and none for a
\* category with both sides empty.
C18_DetailedTables ==
    md_stage = "called" =>
        /\ md_raised <=> \E cat \in DOMAIN md_diff :
                             md_diff[cat][1] # EmptyCounter /\ md_diff[cat][2] # EmptyCounter
        /\ ~md_raised =>
               /\ \A cat \in DOMAIN md_diff :
                      Cardinality({n \in 1..Len(md_tables) : md_tables[n].table.cat = cat})
                          = IF md_diff[cat] = <<EmptyCounter, EmptyCounter>> THEN 0 ELSE 1
               /\ \A n \in 1..Len(md_tables) :
                      LET t == md_tables[n].table
                      IN /\ t.cat \in DOMAIN md_diff
                         /\ IF md_diff[t.cat][1] # EmptyCounter
                            THEN t.is_removed /\ t.diff = md_diff[t.cat][1]
                            ELSE ~t.is_removed /\ t.diff = md_diff[t.cat][2]
               /\ \A n \in 1..Len(md_tables), m \in 1..Len(md_tables) :
                      n < m => CatLess(md_tables[n].table.cat, md_tables[m].table.cat)

\* a diff of three categories, the first with gained errors only, the second
\* with both sides empty, the third with removed errors only: two tables
C18_Witness ==
    /\ md_stage = "called"
    /\ ~md_raised
    /\ Cardinality(DOMAIN md_diff) = 3
    /\ Len(md_tables) = 2
    /\ ~md_tables[1].table.is_removed
    /\ md_tables[2].table.is_removed

\* C19: the state of a counter depends only on the multiset of errors counted:
\* count(A) then count(B), count(B) then count(A) and a single count(A
\* followed by B) give equal cats(), equal counts_by_cat and equal c[cat] for
\* every category, and equal validation_err_diff results against another counter.
C19_OrderAndSplitIndependent ==
    ord_stage = "counted" =>
        \A k \in 2..3 :
            /\ cats(ord_ctrs[k]) = cats(ord_ctrs[1])
            /\ counts_by_cat(ord_ctrs[k]) = counts_by_cat(ord_ctrs[1])
            /\ \A cat \in AllCats :
                   getitem(k, ord_ctrs[k], cat).obj.val = getitem(1, ord_ctrs[1], cat).obj.val
            /\ ord_diffs[k] = ord_diffs[1]

\* A and B hold different errors of one category, two each, and the counter
\* differs from the one it is diffed against
C19_Witness ==
    /\ ord_stage = "counted"
    /\ Len(ord_in[1]) = 2
    /\ Len(ord_in[2]) = 2
    /\ ord_in[1] \o ord_in[2] # ord_in[2] \o ord_in[1]
    /\ \E cat \in DOMAIN ord_ctrs[1] : CounterTotal(ord_ctrs[1][cat]) = 4
    /\ ord_diffs[1] # << >>

\* C20: pydantic_err_rep(err, path) returns (err["type"], err["msg"],
\* tuple(err["loc"]), path), the elements of loc and their order verbatim,
\* does not modify err, and raises instead of returning a partial tuple when
\* err lacks "type", "msg" or "loc".
C20_RepVerbatimOrRaise ==
    raw_stage = "called" =>
        /\ raw_err = raw_err_in
        /\ IF \A k \in {"type", "msg", "loc"} : k \in DOMAIN raw_err_in
           THEN /\ ~raw_raised
                /\ Len(raw_ret) = 4
                /\ raw_ret[1] = raw_err_in["type"]
                /\ raw_ret[2] = raw_err_in["msg"]
                /\ Len(raw_ret[3]) = Len(raw_err_in["loc"].list)
                /\ \A n \in 1..Len(raw_ret[3]) : raw_ret[3][n] = raw_err_in["loc"].list[n]
                /\ raw_ret[4] = raw_path
           ELSE raw_raised /\ raw_ret = << >>

\* a dict with all three keys and a loc of a string and an integer, returned
\* with the integer in place
C20_Witness ==
    /\ raw_stage = "called"
    /\ ~raw_raised
    /\ Len(raw_ret[3]) = 2
    /\ ~raw_ret[3][1].isInt
    /\ raw_ret[3][2] = LocInt(1)

\* what the characters of a text are to be replaced by, one after the other
RECURSIVE Replaced(_)
Replaced(text) ==
    IF text = << >> THEN << >>
    ELSE LET c == Head(text)
             r == IF c \in {"\\", GraveAccent, "*", "_", "{", "}", "[", "]", "(", ")", "#", "+", "-", ".", "!"}
                  THEN <<"\\", c>>
                  ELSE IF c = "<" THEN <<"&", "l", "t", ";">>
                  ELSE IF c = ">" THEN <<"&", "g", "t", ";">>
                  ELSE IF c = "|" THEN <<"&", "#", "1", "2", "4", ";">>
                  ELSE <<c>>
         IN r \o Replaced(Tail(text))

\* the characters escape replaces
SpecialChars ==
    {"\\", GraveAccent, "*", "_", "{", "}", "[", "]", "(", ")", "#", "+", "-", ".", "!", "<", ">", "|"}

\* C21: escape(text) replaces, character by character, each of \ ` * _ { } [ ]
\* ( ) # + - . ! by a backslash followed by the character, < by &lt;, > by
\* &gt;, | by &#124;, and leaves every other character unchanged; so
\* escape(a + b) = escape(a) + escape(b), a text without special characters
\* escapes to itself, and the output never contains a raw |, < or >.
C21_EscapeCharByChar ==
    esc_stage = "escaped" =>
        /\ esc_out.a = Replaced(esc_a)
        /\ esc_out.b = Replaced(esc_b)
        /\ esc_out.ab = esc_out.a \o esc_out.b
        /\ (\A n \in 1..Len(esc_a) : esc_a[n] \notin SpecialChars) => esc_out.a = esc_a
        /\ \A n \in 1..Len(esc_out.ab) : esc_out.ab[n] \notin {"|", "<", ">"}

\* "|-" followed by "<": a vertical bar, a Markdown character and an HTML
\* character escaped, the escape of the whole the escapes of the parts joined
C21_Witness ==
    /\ esc_stage = "escaped"
    /\ esc_a = <<"|", "-">>
    /\ esc_b = <<"<">>
    /\ esc_out.ab = <<"&", "#", "1", "2", "4", ";", "\\", "-", "&", "l", "t", ";">>

\* the rows the count table of counter i is to have: one for each category
\* into which it counted an error, with the number of errors counted into it
CountedRows(i) == {<<cat, CountedInto(i, cat)>> : cat \in CountedCats(i)}

\* the rows of a rendered count table
Rows(table) == {table[n] : n \in 1..Len(table)}

\* C22: in the text validation_err_diff_summary(c1, c2) produces, the "errs 1
\* counts" table has exactly one row for each category into which c1 counted
\* at least one error and the "errs 2 counts" table one for each category into
\* which c2 did, each with the total of the category; neither table has a row
\* for a category counted only in the other counter, nor a row with count 0.
C22_CountTablesOfCounted ==
    (call.op = "summary" /\ ~raised) =>
        /\ Rows(ret_summary.count_table1) = CountedRows(call.i)
        /\ Rows(ret_summary.count_table2) = CountedRows(call.j)
        /\ Len(ret_summary.count_table1) = Cardinality(CountedCats(call.i))
        /\ Len(ret_summary.count_table2) = Cardinality(CountedCats(call.j))
        /\ \A row \in Rows(ret_summary.count_table1) \cup Rows(ret_summary.count_table2) :
               row[2] # 0

\* C23: migrate_manifests_dandisets writes exactly one output metadata file
\* for every version directory that holds a dandiset metadata file and none
\* for one without; when the migration of an instance fails it logs a warning,
\* writes for that version an object whose only key is
\* "metadata_migration_failed", and goes on with the remaining versions and
\* dandisets instead of aborting the run.
C23_MigrationFailureIsRecorded ==
    /\ ~mig_raised
    /\ mig_stage # "aborted"
    /\ mig_stage = "done" =>
           /\ DOMAIN mig_out = {k \in MigKeys : mig_manifest[k] # "no_file"}
           /\ \A k \in MigKeys :
                  mig_manifest[k] \in {"ValueError", "NotImplementedError"} =>
                      /\ DOMAIN mig_out[k] = {"metadata_migration_failed"}
                      /\ \E n \in 1..Len(mig_warnings) : mig_warnings[n] = k

\* a < b for two entity keys (identifier, version, index) of assets
AssetKeyLess(a, b) ==
    IF a[1] # b[1] THEN StrLess(a[1], b[1])
    ELSE IF a[2] # b[2] THEN StrLess(a[2], b[2])
    ELSE a[3] < b[3]

\* some error list of some report of the collection on the asset of key k is
\* not empty
AssetHasErrs(reports, k) ==
    \E a \in AssetReportsAt(reports, k) :
        \/ reports[a].pydantic_validation_errs # << >>
        \/ reports[a].jsonschema_validation_errs # << >>

\* C24: the list _dandiset_validation_diff_reports returns, and likewise the
\* list _asset_validation_diff_reports returns, holds at most one diff report
\* for an entity key, in ascending order of the key, and holds a report for a
\* key iff at least one of the four error lists of that key (pydantic and
\* jsonschema errors of report-set 1 and of report-set 2) is non-empty.
C24_DiffReportsSortedByKey ==
    /\ (dr_stage \in {"diffed", "output"} /\ ~dr_raised) =>
           /\ \A i \in 1..Len(diff_reports), j \in 1..Len(diff_reports) :
                  i < j =>
                      SeqStrLess(
                          <<diff_reports[i].dandiset_identifier, diff_reports[i].dandiset_version>>,
                          <<diff_reports[j].dandiset_identifier, diff_reports[j].dandiset_version>>)
           /\ \A k \in DrKeys :
                  DiffReportsAt(k) # {}
                      <=> \E r \in {ReportAt(reports1, k), ReportAt(reports2, k)} \ {None} :
                              \/ r.pydantic_validation_errs # << >>
                              \/ r.jsonschema_validation_errs # << >>
    /\ (ar_stage = "diffed" /\ ~ar_raised) =>
           /\ \A i \in 1..Len(asset_diff_reports), j \in 1..Len(asset_diff_reports) :
                  i < j =>
                      AssetKeyLess(AssetKeyOf(asset_diff_reports[i]),
                                   AssetKeyOf(asset_diff_reports[j]))
           /\ \A k \in AssetKeys :
                  (\E i \in 1..Len(asset_diff_reports) : AssetKeyOf(asset_diff_reports[i]) = k)
                      <=> (AssetHasErrs(asset_reports1, k) \/ AssetHasErrs(asset_reports2, k))

\* C25: validation_err_diff is antisymmetric under swapping its arguments:
\* for counters c1 and c2 built with the same categorizer,
\* validation_err_diff(c2, c1) has the key set of validation_err_diff(c1, c2),
\* and for every key its pair (removed, gained) is the pair (gained, removed)
\* of the other.
C25_DiffAntisymmetric ==
    call.op = "diff" =>
        LET swapped == validation_err_diff(err_ctrs_by_cat[call.j], err_ctrs_by_cat[call.i]).diff
        IN /\ DOMAIN swapped = DOMAIN ret_diff
           /\ \A cat \in DOMAIN ret_diff :
                  /\ swapped[cat][1] = ret_diff[cat][2]
                  /\ swapped[cat][2] = ret_diff[cat][1]

\* a diff with a category that has removed errors only, so that the swapped
\* diff has gained errors only there, and a category with errors of both sides
C25_Witness ==
    /\ call.op = "diff"
    /\ \E cat \in DOMAIN ret_diff :
           CounterTruthy(ret_diff[cat][1]) /\ ~CounterTruthy(ret_diff[cat][2])
    /\ \E cat \in DOMAIN ret_diff :
           /\ CounterTruthy(ret_diff[cat][1]) /\ CounterTruthy(ret_diff[cat][2])
           /\ ret_diff[cat][1] # ret_diff[cat][2]

\* C26: the diff reconstructs the second population from the first: for every
\* category cat, with (removed, gained) the pair of cat in
\* validation_err_diff(c1, c2), two empty multisets when cat is not emitted,
\* c1[cat] + gained and c2[cat] + removed are the same multiset, and
\* total(c2[cat]) - total(c1[cat]) = total(gained) - total(removed).
C26_DiffReconstructs ==
    call.op = "diff" =>
        \A cat \in AllCats :
            /\ \A e \in Errs :
                   CountAt(call.i, cat, e) + CounterGet(DiffAt(cat)[2], e)
                       = CountAt(call.j, cat, e) + CounterGet(DiffAt(cat)[1], e)
            /\ CounterTotal(ValueAt(call.j, cat)) - CounterTotal(ValueAt(call.i, cat))
                   = CounterTotal(DiffAt(cat)[2]) - CounterTotal(DiffAt(cat)[1])

\* a category in which the first counter holds an error twice and the second
\* holds it once next to another error: one is removed once, the other gained
\* once, and the totals of the category are equal
C26_Witness ==
    /\ call.op = "diff"
    /\ \E cat \in DOMAIN ret_diff, e \in Errs, f \in Errs :
           /\ CountAt(call.i, cat, e) = 2
           /\ CountAt(call.j, cat, e) = 1
           /\ CountAt(call.j, cat, f) = 1
           /\ ret_diff[cat] = <<e :> 1, f :> 1>>

\* C27: in every pair (removed, gained) validation_err_diff emits, every count
\* stored in removed and in gained is at least 1, and no error is an element
\* of both removed and gained of one category.
C27_DiffSidesDisjoint ==
    call.op = "diff" =>
        \A cat \in DOMAIN ret_diff :
            /\ \A e \in DOMAIN ret_diff[cat][1] : ret_diff[cat][1][e] >= 1
            /\ \A e \in DOMAIN ret_diff[cat][2] : ret_diff[cat][2][e] >= 1
            /\ (DOMAIN ret_diff[cat][1]) \cap (DOMAIN ret_diff[cat][2]) = {}

\* an error both counters hold, once in the first and twice in the second:
\* it is gained once and not removed
C27_Witness ==
    /\ call.op = "diff"
    /\ \E cat \in DOMAIN ret_diff, e \in Errs :
           /\ CountAt(call.i, cat, e) = 1
           /\ CountAt(call.j, cat, e) = 2
           /\ e \notin DOMAIN ret_diff[cat][1]
           /\ ret_diff[cat][2][e] = 1

\* the sum of the values of a dict
SumVals(f) == SumOver(f, DOMAIN f)

\* C28: conservation of counted errors: after any sequence of count calls the
\* values of counts_by_cat sum to the number of errors passed to count over
\* all calls, repetitions counted, whatever categorizer the counter was built with.
C28_CountsConserved ==
    call.op = "counts_by_cat" => SumVals(ret_counts) = CountedTotal(call.i)

\* a counter built with the categorizer of the tests, which puts all errors
\* into one category, after one error was counted twice
C28_Witness ==
    /\ call.op = "counts_by_cat"
    /\ categorizer = "simple_categorizer"
    /\ \E e \in Errs : counted[call.i][e] = 2
    /\ ret_counts = (<<"T">> :> 2)

\* C29: categories partition the counted errors: in every reachable state of a
\* counter built with a deterministic categorizer, every error e stored in the
\* multiset of category cat has categorizer(e) = cat, so no error is in the
\* multisets of two categories, and c[categorizer(e)][e] is the number of
\* times e was counted.
C29_CategoriesPartition ==
    \A i \in Ctrs :
        /\ \A cat \in DOMAIN err_ctrs_by_cat[i] :
               \A e \in DOMAIN err_ctrs_by_cat[i][cat] : err_categorizer(e) = cat
        /\ \A cat1 \in DOMAIN err_ctrs_by_cat[i], cat2 \in DOMAIN err_ctrs_by_cat[i] :
               cat1 # cat2 =>
                   (DOMAIN err_ctrs_by_cat[i][cat1]) \cap (DOMAIN err_ctrs_by_cat[i][cat2]) = {}
        /\ \A e \in Errs : CountAt(i, err_categorizer(e), e) = counted[i][e]

\* a counter built with pydantic_err_categorizer that was passed, in one
\* call, two errors of different categories and holds one in each
C29_Witness ==
    /\ call.op = "count"
    /\ categorizer = "pydantic_err_categorizer"
    /\ CountedTotal(1) = 2
    /\ Cardinality(DOMAIN err_ctrs_by_cat[1]) = 2
    /\ \A cat \in DOMAIN err_ctrs_by_cat[1] : CounterTotal(err_ctrs_by_cat[1][cat]) = 1

\* C30: the location generalization of pydantic_err_categorizer is idempotent:
\* for an error (type, msg, loc, path), the error whose loc has had every
\* integer replaced by "[*]" already gets the category of the original error,
\* so compressing at normalization and then categorizing gives the key (same
\* length, same elements) that categorizing the uncompressed error once gives.
C30_GeneralizationIdempotent ==
    stage = "categorized" =>
        \A k \in 1..Len(in_errs), m \in 1..Len(in_errs) :
            (/\ ErrTuple(m)[1] = ErrTuple(k)[1]
             /\ ErrTuple(m)[2] = ErrTuple(k)[2]
             /\ ErrTuple(m)[3] = WithWildcards(ErrTuple(k)[3]))
                => /\ out_cats[m] = out_cats[k]
                   /\ Len(out_cats[m]) = Len(out_cats[k])
                   /\ Len(out_cats[m][3]) = Len(ErrTuple(k)[3])
                   /\ \A n \in 1..Len(out_cats[m][3]) : out_cats[m][3][n] = out_cats[k][3][n]

\* an error with an array index in its loc and the same error with the index
\* replaced by "[*]" beforehand, categorised alike
C30_Witness ==
    /\ stage = "categorized"
    /\ Len(in_errs) = 2
    /\ ErrTuple(1)[3] = <<LocStr("a"), LocInt(1)>>
    /\ ErrTuple(2)[3] = <<LocStr("a"), LocStr("[*]")>>
    /\ out_cats[1] = out_cats[2]

====
